---- MODULE Spec2Model ----
(***************************************************************************)
(* Verification model of the cave routing core (src/routing/engine.py):    *)
(* OccupancyGrid, Costmap, astar, smooth_path, route_through_waypoints.    *)
(*                                                                         *)
(* Number representation.  The code computes in float64; the model uses    *)
(* fixed point:                                                            *)
(*   - cell costs are in 1/100 (cost 1.0 is 100), +inf is Inf;             *)
(*   - move lengths are in 1/1000 (1.0 is 1000, 1.414 is 1414);            *)
(*   - accumulated cost g, heuristic h and priority f are in 1/100000,     *)
(*     so cost * move length is exact and h = floor(sqrt(d2) * 10^5).      *)
(*   - world coordinates and the inflation radius are integers, one cell   *)
(*     being Resolution units; a cell is 0.1 m in the penalty tables;      *)
(*   - densities and thresholds are in 1/100.                              *)
(* Divisions that the code rounds (round(), to even on ties) are rounded   *)
(* the same way on the exact quotient.                                     *)
(***************************************************************************)
EXTENDS Integers, Sequences, FiniteSets, TLC

\* ------------------------------------------------------------------------
\* Bounds of the model
\* ------------------------------------------------------------------------
GridW == 3
MaxWalls == 2
MaxRough == 1
MaxIterSmall == 2
Resolution == 2
MaxDense == 1
MaxTraj == 1
MaxPathLen == 3
MaxWp == 3

\* ------------------------------------------------------------------------
\* Program constants
\* ------------------------------------------------------------------------
Inf == 999999999
DefaultMaxIterations == 500000
MaxRadius == 20
RoughCost == 387

None == [ok |-> FALSE, path |-> <<>>]
Some(p) == [ok |-> TRUE, path |-> p]

Abs(x) == IF x < 0 THEN 0 - x ELSE x
Max2(a, b) == IF a > b THEN a ELSE b
Min2(a, b) == IF a < b THEN a ELSE b
MinOf(S) == CHOOSE x \in S : \A y \in S : x <= y
DistSq(a, b) == (a[1] - b[1]) * (a[1] - b[1]) + (a[2] - b[2]) * (a[2] - b[2])

\* ------------------------------------------------------------------------
\* math.sqrt, to five decimals: floor(sqrt(n) * 10^5), by long-hand digit
\* extraction (each intermediate stays below 2^31).
\* ------------------------------------------------------------------------
IntSqrt(n) == CHOOSE p \in 0 .. n : p * p <= n /\ (p + 1) * (p + 1) > n

RECURSIVE SqrtDigits(_, _, _)
SqrtDigits(p, rem, k) ==
    IF k = 0 THEN p
    ELSE LET d == CHOOSE x \in 0 .. 9 :
                      /\ (20 * p + x) * x <= rem
                      /\ (x = 9 \/ (20 * p + x + 1) * (x + 1) > rem)
         IN SqrtDigits(10 * p + d, (rem - (20 * p + d) * d) * 100, k - 1)

Sqrt5(n) == LET p == IntSqrt(n) IN SqrtDigits(p, (n - p * p) * 100, 5)

SqrtTable == [n \in 0 .. 128 |-> Sqrt5(n)]

\* round(n / d) for d > 0 as Python rounds a float: to nearest, ties to even
RoundHalfEven(n, d) ==
    LET q == n \div d
        r == n % d
    IN IF 2 * r < d THEN q
       ELSE IF 2 * r > d THEN q + 1
       ELSE IF q % 2 = 0 THEN q ELSE q + 1

\* ------------------------------------------------------------------------
\* Coordinate conversions
\* ------------------------------------------------------------------------
world_to_cell(x, y, origin) ==
    << RoundHalfEven(y - origin[2], Resolution), RoundHalfEven(x - origin[1], Resolution) >>

cell_to_world(row, col, origin) ==
    << origin[1] + col * Resolution, origin[2] + row * Resolution >>

\* ------------------------------------------------------------------------
\* OccupancyGrid
\* ------------------------------------------------------------------------
CellsOf(g) == (0 .. (g.height - 1)) \X (0 .. (g.width - 1))

\* OccupancyGrid.__init__: occupied where density > threshold
OccupancyGrid(heatmap_data, origin, width, height, threshold) ==
    [origin |-> origin, width |-> width, height |-> height,
     grid |-> [c \in (0 .. (height - 1)) \X (0 .. (width - 1)) |-> heatmap_data[c] > threshold]]

\* the indices selected by the slice lo:hi of an axis of length n (lo >= 0;
\* a negative hi counts from the end, as numpy slices do)
SliceRange(lo, hi, n) ==
    { i \in 0 .. (n - 1) : i >= lo /\ i < (IF hi < 0 THEN hi + n ELSE hi) }

\* lines 84-89 and 144-149: the block of cells assigned around one point
Block(g, point, radius_cells) ==
    LET rc == world_to_cell(point[1], point[2], g.origin)
        r_min == Max2(0, rc[1] - radius_cells)
        r_max == Min2(g.height, rc[1] + radius_cells + 1)
        c_min == Max2(0, rc[2] - radius_cells)
        c_max == Min2(g.width, rc[2] + radius_cells + 1)
    IN SliceRange(r_min, r_max, g.height) \X SliceRange(c_min, c_max, g.width)

\* a boolean array with the blocks around the points from the k-th on set to v
RECURSIVE AssignBlocks(_, _, _, _, _, _)
AssignBlocks(g, arr, points, radius_cells, v, k) ==
    IF k > Len(points) THEN arr
    ELSE AssignBlocks(g,
                      [c \in DOMAIN arr |->
                          IF c \in Block(g, points[k], radius_cells) THEN v ELSE arr[c]],
                      points, radius_cells, v, k + 1)

\* OccupancyGrid.mark_trajectory_free
mark_trajectory_free_copy(occ, trajectory, radius_cells) == occ
mark_trajectory_free(occ, trajectory, radius_cells) ==
    [occ EXCEPT !.grid = AssignBlocks(occ, occ.grid, trajectory, radius_cells, FALSE, 1)]

in_bounds(occ, row, col) == 0 <= row /\ row < occ.height /\ 0 <= col /\ col < occ.width

is_free(occ, row, col) == in_bounds(occ, row, col) /\ ~ occ.grid[<<row, col>>]

\* ------------------------------------------------------------------------
\* Costmap
\* ------------------------------------------------------------------------
\* the radius of the square ring around a that holds b
RingRadius(a, b) == Max2(Abs(a[1] - b[1]), Abs(a[2] - b[2]))

\* binary_dilation with the 8-connected structure, n iterations
RECURSIVE binary_dilation(_, _)
binary_dilation(mask, iterations) ==
    IF iterations = 0 THEN mask
    ELSE binary_dilation(
           [c \in DOMAIN mask |-> \E d \in DOMAIN mask : mask[d] /\ RingRadius(c, d) <= 1],
           iterations - 1)

\* distance_transform_edt, squared and in cells: for every TRUE cell the
\* least squared distance to a FALSE cell, 0 for a FALSE cell.  With no FALSE
\* cell at all the library's feature transform keeps its initial feature
\* (-1, 0) for every cell.
distance_transform_edt(mask) ==
    LET bg == { c \in DOMAIN mask : ~ mask[c] }
    IN [c \in DOMAIN mask |->
          IF ~ mask[c] THEN 0
          ELSE IF bg = {} THEN DistSq(c, <<0 - 1, 0>>)
          ELSE MinOf({ DistSq(c, b) : b \in bg })]

\* 1000 * (1 + 4 exp(-d / 0.3)) for d = 0.1 * sqrt(d2) metres, d2 = 0 .. 128
\* (1000 where the distance is 0: lines 178-182)
WallPenaltyTable ==
    << 1000, 3866, 3497, 3246, 3054, 2898, 2768, 2656, 2558, 2472, 2394, 2324,
       2261, 2203, 2149, 2100, 2054, 2012, 1972, 1936, 1901, 1868, 1838, 1809,
       1781, 1756, 1731, 1708, 1686, 1664, 1644, 1625, 1607, 1589, 1573, 1557,
       1541, 1527, 1512, 1499, 1486, 1473, 1461, 1450, 1438, 1428, 1417, 1407,
       1397, 1388, 1379, 1370, 1362, 1353, 1345, 1338, 1330, 1323, 1316, 1309,
       1302, 1296, 1290, 1284, 1278, 1272, 1267, 1261, 1256, 1251, 1246, 1241,
       1236, 1232, 1227, 1223, 1219, 1215, 1211, 1207, 1203, 1199, 1196, 1192,
       1188, 1185, 1182, 1179, 1175, 1172, 1169, 1166, 1164, 1161, 1158, 1155,
       1153, 1150, 1148, 1145, 1143, 1140, 1138, 1136, 1134, 1131, 1129, 1127,
       1125, 1123, 1121, 1119, 1117, 1116, 1114, 1112, 1110, 1109, 1107, 1105,
       1104, 1102, 1101, 1099, 1098, 1096, 1095, 1093, 1092 >>

\* 1000 * (1 + 50 (1 - exp(-d / 0.5))) for d = 0.1 * sqrt(d2) metres
TrajPenaltyTable ==
    << 1000, 10063, 13318, 15639, 17484, 19030, 20366, 21545, 22601, 23559, 24436, 25243,
       25992, 26689, 27342, 27956, 28534, 29080, 29598, 30090, 30558, 31004, 31431, 31839,
       32231, 32606, 32967, 33314, 33648, 33970, 34280, 34580, 34870, 35151, 35422, 35685,
       35940, 36188, 36427, 36660, 36887, 37107, 37321, 37529, 37732, 37929, 38122, 38309,
       38492, 38670, 38844, 39014, 39180, 39342, 39500, 39655, 39806, 39954, 40099, 40240,
       40379, 40515, 40648, 40778, 40905, 41030, 41153, 41273, 41390, 41506, 41619, 41730,
       41839, 41946, 42051, 42154, 42255, 42355, 42452, 42548, 42642, 42735, 42826, 42916,
       43004, 43090, 43175, 43259, 43341, 43422, 43502, 43580, 43657, 43733, 43808, 43882,
       43954, 44026, 44096, 44165, 44233, 44300, 44367, 44432, 44496, 44559, 44622, 44683,
       44744, 44804, 44863, 44921, 44978, 45034, 45090, 45145, 45199, 45253, 45306, 45358,
       45409, 45460, 45510, 45559, 45608, 45656, 45704, 45750, 45797 >>

wall_penalty(d2) == WallPenaltyTable[d2 + 1]
traj_penalty(d2) == TrajPenaltyTable[d2 + 1]

\* lines 142-149: the blocks of +-2 cells around the protected points are
\* taken out of the lethal mask
Protect_radius1(occ, lethal, trajectory) == AssignBlocks(occ, lethal, trajectory, 1, FALSE, 1)
Protect(occ, lethal, trajectory) == AssignBlocks(occ, lethal, trajectory, 2, FALSE, 1)

\* Costmap.__init__.  grid is the occupancy grid's array (costmap.occ.grid),
\* distance_field and traj_distance are kept squared and in cells.
Costmap(occ, inflation_radius, trajectory) ==
    LET inflation_cells == Max2(1, RoundHalfEven(inflation_radius, Resolution))
        dilated   == binary_dilation(occ.grid, inflation_cells)
        inflated  == Protect(occ, dilated, trajectory)
        wall_dist == distance_transform_edt([c \in DOMAIN occ.grid |-> ~ occ.grid[c]])
        traj_mask == AssignBlocks(occ, [c \in DOMAIN occ.grid |-> FALSE], trajectory, 1, TRUE, 1)
        traj_dist == distance_transform_edt([c \in DOMAIN occ.grid |-> ~ traj_mask[c]])
    IN [height |-> occ.height, width |-> occ.width, origin |-> occ.origin,
        grid |-> occ.grid,
        cost |-> [c \in DOMAIN occ.grid |->
                    IF inflated[c] THEN Inf
                    ELSE (wall_penalty(wall_dist[c]) * traj_penalty(traj_dist[c]) + 5000) \div 10000],
        distance_field |-> wall_dist,
        traj_distance |-> traj_dist]

\* Costmap.is_traversable
is_traversable(cm, row, col) ==
    /\ 0 <= row /\ row < cm.height
    /\ 0 <= col /\ col < cm.width
    /\ cm.cost[<<row, col>>] # Inf

\* ------------------------------------------------------------------------
\* A* pathfinding
\* ------------------------------------------------------------------------
_NEIGHBORS_cardinal ==
    << <<0 - 1, 0, 1000>>, <<1, 0, 1000>>, <<0, 0 - 1, 1000>>, <<0, 1, 1000>> >>
_NEIGHBORS ==
    << <<0 - 1, 0, 1000>>, <<1, 0, 1000>>, <<0, 0 - 1, 1000>>, <<0, 1, 1000>>,
       <<0 - 1, 0 - 1, 1414>>, <<0 - 1, 1, 1414>>, <<1, 0 - 1, 1414>>, <<1, 1, 1414>> >>

\* lines 288-293 for one radius r: the border cells of the square that are
\* traversable (only cells of the grid can be), and the first of them in the
\* order of the two loops (dr ascending, then dc ascending)
RingCells(cm, row, col, r) ==
    { c \in CellsOf(cm) : RingRadius(<<row, col>>, c) = r /\ is_traversable(cm, c[1], c[2]) }

FirstScanned(S) ==
    CHOOSE c \in S : \A d \in S : c[1] < d[1] \/ (c[1] = d[1] /\ c[2] <= d[2])

\* line 287: the radii in ascending order from r; <<>> stands for (None, None)
RECURSIVE FindFrom(_, _, _, _, _)
FindFrom(cm, row, col, r, max_radius) ==
    IF r > max_radius THEN <<>>
    ELSE LET S == RingCells(cm, row, col, r)
         IN IF S # {} THEN FirstScanned(S)
            ELSE FindFrom(cm, row, col, r + 1, max_radius)

_find_nearest_free_from2(cm, row, col) == FindFrom(cm, row, col, 2, MaxRadius)
_find_nearest_free(cm, row, col) == FindFrom(cm, row, col, 1, MaxRadius)

heuristic(cell, g) == SqrtTable[DistSq(cell, g)]

\* an endpoint after the rescue of lines 228-237: <<>> when it fails
Rescue(cm, cell) ==
    IF is_traversable(cm, cell[1], cell[2]) THEN cell
    ELSE _find_nearest_free(cm, cell[1], cell[2])

\* heapq order on (f_score, counter, row, col); counters are unique
HeapLess_lifo(a, b) == a.f < b.f \/ (a.f = b.f /\ a.n > b.n)
HeapLess(a, b) == a.f < b.f \/ (a.f = b.f /\ a.n < b.n)
HeapMin(open) == CHOOSE e \in open : \A o \in open : o = e \/ HeapLess(e, o)

GScoreGet(g_score, cell) == IF cell \in DOMAIN g_score THEN g_score[cell] ELSE Inf

\* lines 255-260: follow came_from back from the goal
RECURSIVE Reconstruct(_, _, _)
Reconstruct(came_from, cell, acc) ==
    IF cell \in DOMAIN came_from
    THEN Reconstruct(came_from, came_from[cell], <<came_from[cell]>> \o acc)
    ELSE acc

\* the state of a search before its first statement
SearchIdle ==
    [pc |-> "init", s |-> <<>>, g |-> <<>>, open |-> {}, g_score |-> <<>>,
     came_from |-> <<>>, counter |-> 0, iterations |-> 0, popped |-> <<>>,
     result |-> None]

\* lines 225-246: endpoint rescue and the initial open set
AstarBegin(cm, start, goal) ==
    LET s  == Rescue(cm, start)
        gl == IF s = <<>> THEN <<>> ELSE Rescue(cm, goal)
    IN IF s = <<>> \/ gl = <<>>
       THEN [SearchIdle EXCEPT !.pc = "done", !.s = s, !.g = gl]
       ELSE [SearchIdle EXCEPT
                !.pc = "loop", !.s = s, !.g = gl,
                !.open = {[f |-> heuristic(s, gl), n |-> 0, cell |-> s]},
                !.g_score = (s :> 0)]

\* lines 267-280: the neighbour loop from the k-th neighbour on
RECURSIVE Expand(_, _, _, _, _)
Expand(cm, st, cell, current_g, k) ==
    IF k > Len(_NEIGHBORS) THEN st
    ELSE LET nb == _NEIGHBORS[k]
             nr == cell[1] + nb[1]
             nc == cell[2] + nb[2]
         IN IF ~ is_traversable(cm, nr, nc)
            THEN Expand(cm, st, cell, current_g, k + 1)
            ELSE LET move_cost   == cm.cost[<<nr, nc>>] * nb[3]
                     tentative_g == current_g + move_cost
                 IN IF tentative_g < GScoreGet(st.g_score, <<nr, nc>>)
                    THEN Expand(cm,
                           [st EXCEPT
                              !.g_score = (<<nr, nc>> :> tentative_g) @@ @,
                              !.came_from = (<<nr, nc>> :> cell) @@ @,
                              !.counter = @ + 1,
                              !.open = @ \cup {[f |-> tentative_g + heuristic(<<nr, nc>>, st.g),
                                                n |-> st.counter + 1,
                                                cell |-> <<nr, nc>>]}],
                           cell, current_g, k + 1)
                    ELSE Expand(cm, st, cell, current_g, k + 1)

\* line 249: the loop condition
LoopCondition_unbounded(st, max_iterations) == st.open # {}
LoopCondition(st, max_iterations) == st.open # {} /\ st.iterations < max_iterations

\* lines 249-282: one test of the loop condition and, if it holds, one
\* iteration of the loop
AstarStep_goalonly(cm, st, max_iterations) ==
    IF ~ LoopCondition(st, max_iterations)
    THEN [st EXCEPT !.pc = "done", !.result = None]
    ELSE LET e  == HeapMin(st.open)
             s1 == [st EXCEPT !.iterations = @ + 1, !.open = @ \ {e}, !.popped = e]
         IN IF e.cell = st.g
            THEN [s1 EXCEPT !.pc = "done", !.result = Some(<<e.cell>>)]
            ELSE LET current_g == GScoreGet(st.g_score, e.cell)
                 IN IF current_g > GScoreGet(st.g_score, e.cell)
                    THEN s1
                    ELSE Expand(cm, s1, e.cell, current_g, 1)
AstarStep(cm, st, max_iterations) ==
    IF ~ LoopCondition(st, max_iterations)
    THEN [st EXCEPT !.pc = "done", !.result = None]
    ELSE LET e  == HeapMin(st.open)
             s1 == [st EXCEPT !.iterations = @ + 1, !.open = @ \ {e}, !.popped = e]
         IN IF e.cell = st.g
            THEN [s1 EXCEPT !.pc = "done",
                            !.result = Some(Reconstruct(st.came_from, e.cell, <<e.cell>>))]
            ELSE LET current_g == GScoreGet(st.g_score, e.cell)
                 IN IF current_g > GScoreGet(st.g_score, e.cell)
                    THEN s1
                    ELSE Expand(cm, s1, e.cell, current_g, 1)

\* astar as a function: the result of running the loop to its end
RECURSIVE AstarRun(_, _, _)
AstarRun(cm, st, max_iterations) ==
    IF st.pc = "done" THEN st ELSE AstarRun(cm, AstarStep(cm, st, max_iterations), max_iterations)

astar(cm, start, goal, max_iterations) ==
    AstarRun(cm, AstarBegin(cm, start, goal), max_iterations).result

\* ------------------------------------------------------------------------
\* Path smoothing
\* ------------------------------------------------------------------------
\* lines 346-349: some occupied cell lies in the clearance window of (r, c)
ClearanceBlocked(cm, r, c, min_clearance) ==
    \E w \in SliceRange(Max2(0, r - min_clearance), Min2(cm.height, r + min_clearance + 1),
                        cm.height)
             \X SliceRange(Max2(0, c - min_clearance), Min2(cm.width, c + min_clearance + 1),
                           cm.width) :
        cm.grid[w]

\* lines 339-350 for one sample: the cell at step/steps along the segment
\* (t = step / steps, rounded as round() rounds) is traversable and clear
SampleClear(cm, cell_a, cell_b, steps, step, min_clearance) ==
    LET r == RoundHalfEven(cell_a[1] * steps + step * (cell_b[1] - cell_a[1]), steps)
        c == RoundHalfEven(cell_a[2] * steps + step * (cell_b[2] - cell_a[2]), steps)
    IN /\ is_traversable(cm, r, c)
       /\ ~ (min_clearance > 0 /\ ClearanceBlocked(cm, r, c, min_clearance))

_line_of_sight(cm, cell_a, cell_b, min_clearance) ==
    LET steps == Max2(Abs(cell_b[1] - cell_a[1]), Abs(cell_b[2] - cell_a[2]))
    IN IF steps = 0 THEN TRUE
       ELSE \A step \in 0 .. steps : SampleClear(cm, cell_a, cell_b, steps, step, min_clearance)

\* the state of smooth_path before its first statement
SmoothIdle == [pc |-> "init", smoothed |-> <<>>, i |-> 0, result |-> <<>>]

\* lines 308-312 (i is kept 1-based: path[i] here is path[i - 1] there)
SmoothBegin_nofirst(path) ==
    IF Len(path) <= 2
    THEN [SmoothIdle EXCEPT !.pc = "done", !.result = path]
    ELSE [SmoothIdle EXCEPT !.pc = "loop", !.smoothed = <<>>, !.i = 1]
SmoothBegin(path) ==
    IF Len(path) <= 2
    THEN [SmoothIdle EXCEPT !.pc = "done", !.result = path]
    ELSE [SmoothIdle EXCEPT !.pc = "loop", !.smoothed = <<path[1]>>, !.i = 1]

\* lines 316-320: the farthest index j > i + 1 in line of sight of i, else i + 1
BestJ(path, cm, i, min_clearance) ==
    LET J == { j \in (i + 2) .. Len(path) : _line_of_sight(cm, path[i], path[j], min_clearance) }
    IN IF J = {} THEN i + 1 ELSE CHOOSE j \in J : \A k \in J : k <= j

\* lines 314-324: one test of the loop condition and, if it holds, one
\* iteration
SmoothStep(path, cm, st, min_clearance) ==
    IF ~ (st.i < Len(path))
    THEN [st EXCEPT !.pc = "done", !.result = st.smoothed]
    ELSE LET best_j == BestJ(path, cm, st.i, min_clearance)
         IN [st EXCEPT !.smoothed = Append(@, path[best_j]), !.i = best_j]

RECURSIVE SmoothRun(_, _, _, _)
SmoothRun(path, cm, st, min_clearance) ==
    IF st.pc = "done" THEN st
    ELSE SmoothRun(path, cm, SmoothStep(path, cm, st, min_clearance), min_clearance)

smooth_path(path, cm, min_clearance) ==
    SmoothRun(path, cm, SmoothBegin(path), min_clearance).result

\* ------------------------------------------------------------------------
\* Building the costmap of a level (_build_costmaps_at_threshold)
\* ------------------------------------------------------------------------
\* a level is [index, heatmap, trajectory]; heatmap is <<>> when missing,
\* else [data, origin, width, height]; a transition is
\* [from_level, to_level, x, y]
Touches(trans, level_idx) == trans.from_level = level_idx \/ trans.to_level = level_idx

\* lines 554-561
LevelOccupancy(lvl, occupancy_threshold) ==
    OccupancyGrid(lvl.heatmap.data, lvl.heatmap.origin, lvl.heatmap.width,
                  lvl.heatmap.height, occupancy_threshold)

\* lines 563-566
LevelMarked(occ, lvl) ==
    IF lvl.trajectory # <<>> THEN mark_trajectory_free(occ, lvl.trajectory, 2) ELSE occ

\* lines 568-571, from the k-th transition on
RECURSIVE LevelTransitionsMarked(_, _, _, _)
LevelTransitionsMarked(occ, lvl, transitions, k) ==
    IF k > Len(transitions) THEN occ
    ELSE LevelTransitionsMarked(
           IF Touches(transitions[k], lvl.index)
           THEN mark_trajectory_free(occ, << <<transitions[k].x, transitions[k].y>> >>, 3)
           ELSE occ,
           lvl, transitions, k + 1)

\* lines 574-577
RECURSIVE TransitionPoints(_, _, _)
TransitionPoints(lvl, transitions, k) ==
    IF k > Len(transitions) THEN <<>>
    ELSE (IF Touches(transitions[k], lvl.index)
          THEN << <<transitions[k].x, transitions[k].y>> >> ELSE <<>>)
         \o TransitionPoints(lvl, transitions, k + 1)

protected_points(lvl, transitions) == lvl.trajectory \o TransitionPoints(lvl, transitions, 1)

\* lines 579-583
LevelCostmap(occ, lvl, transitions, inflation_radius) ==
    Costmap(occ, inflation_radius, protected_points(lvl, transitions))

\* lines 548-583 for one level
BuildLevel(lvl, transitions, inflation_radius, occupancy_threshold) ==
    LevelCostmap(
        LevelTransitionsMarked(LevelMarked(LevelOccupancy(lvl, occupancy_threshold), lvl),
                               lvl, transitions, 1),
        lvl, transitions, inflation_radius)

\* the dict level index -> Costmap, over the levels that have a heatmap
_build_costmaps_at_threshold(map_data, transitions, inflation_radius, occupancy_threshold) ==
    LET built == { k \in 1 .. Len(map_data.levels) : map_data.levels[k].heatmap # <<>> }
        last(idx) == CHOOSE k \in built :
                        /\ map_data.levels[k].index = idx
                        /\ \A j \in built : map_data.levels[j].index = idx => j <= k
    IN [idx \in { map_data.levels[k].index : k \in built } |->
          BuildLevel(map_data.levels[last(idx)], transitions, inflation_radius,
                     occupancy_threshold)]

\* line 574: protected_points is a new list (list(trajectory)), so the appends
\* of lines 575-577 do not reach the trajectory list of the level
TrajectoryAfter_alias(lvl, transitions) == protected_points(lvl, transitions)
TrajectoryAfter(lvl, transitions) == lvl.trajectory

\* map_data as _build_costmaps_at_threshold leaves it
MapDataAfter(map_data, transitions) ==
    [map_data EXCEPT !.levels =
        [k \in DOMAIN map_data.levels |->
            IF map_data.levels[k].heatmap = <<>> THEN map_data.levels[k]
            ELSE [map_data.levels[k] EXCEPT
                    !.trajectory = TrajectoryAfter(map_data.levels[k], transitions)]]]

\* ------------------------------------------------------------------------
\* Adaptive threshold (build_costmaps_from_map_data, _verify_connectivity)
\* ------------------------------------------------------------------------
\* scipy.ndimage.label with its default structure: the region of a cell is
\* the set of finite-cost cells joined to it through shared edges; the
\* empty set stands for the label 0 of a cell outside every region
EdgeAdjacent(c, d) == Abs(c[1] - d[1]) + Abs(c[2] - d[2]) = 1

RECURSIVE Grow(_, _)
Grow(mask, region) ==
    LET next == region \cup { d \in mask : \E c \in region : EdgeAdjacent(c, d) }
    IN IF next = region THEN region ELSE Grow(mask, next)

labeled(cm, cell) ==
    IF cm.cost[cell] = Inf THEN {}
    ELSE Grow({ d \in CellsOf(cm) : cm.cost[d] # Inf }, {cell})

\* lines 592-631 for one level
LevelConnected(costmaps, lvl, transitions) ==
    IF lvl.index \notin DOMAIN costmaps THEN TRUE
    ELSE IF lvl.trajectory = <<>> THEN TRUE
    ELSE LET cm == costmaps[lvl.index]
             c0 == world_to_cell(lvl.trajectory[1][1], lvl.trajectory[1][2], cm.origin)
             cn == world_to_cell(lvl.trajectory[Len(lvl.trajectory)][1],
                                 lvl.trajectory[Len(lvl.trajectory)][2], cm.origin)
         IN IF ~ in_bounds(cm, c0[1], c0[2]) THEN TRUE
            ELSE IF ~ in_bounds(cm, cn[1], cn[2]) THEN TRUE
            ELSE LET region_start == labeled(cm, c0)
                     region_end   == labeled(cm, cn)
                 IN IF region_start = {} \/ region_end = {} THEN FALSE
                    ELSE IF region_start # region_end THEN FALSE
                    ELSE \A k \in 1 .. Len(transitions) :
                            LET tc == world_to_cell(transitions[k].x, transitions[k].y, cm.origin)
                            IN (Touches(transitions[k], lvl.index) /\ in_bounds(cm, tc[1], tc[2]))
                               => labeled(cm, tc) = region_start

_verify_connectivity(costmaps, map_data, transitions) ==
    \A k \in 1 .. Len(map_data.levels) : LevelConnected(costmaps, map_data.levels[k], transitions)

\* line 526: the thresholds tried, in 1/100; NoThreshold stands for None
NoThreshold == 0 - 1
FallbackThreshold == 50
AdaptiveThresholds_desc == <<50, 35, 25, 15>>
AdaptiveThresholds == <<15, 25, 35, 50>>

ThresholdList(occupancy_threshold) ==
    IF occupancy_threshold = NoThreshold \/ occupancy_threshold = 0
    THEN AdaptiveThresholds ELSE <<occupancy_threshold>>

\* the state of build_costmaps_from_map_data before its first statement;
\* tried lists the thresholds of the builds made so far
EscalateIdle ==
    [pc |-> "init", thresholds |-> <<>>, i |-> 0, tried |-> <<>>, costmaps |-> <<>>,
     result |-> <<>>]

\* lines 523-526
EscalateBegin(occupancy_threshold) ==
    [EscalateIdle EXCEPT !.pc = "loop", !.thresholds = ThresholdList(occupancy_threshold),
                         !.i = 1]

\* lines 528-531 and 538-540: the build of one iteration of the loop or,
\* after the loop, the fallback
EscalateBuild(map_data, inflation_radius, st) ==
    IF st.i > Len(st.thresholds)
    THEN LET costmaps == _build_costmaps_at_threshold(map_data, map_data.transitions,
                                                      inflation_radius, FallbackThreshold)
         IN [st EXCEPT !.pc = "done", !.tried = Append(@, FallbackThreshold),
                       !.costmaps = costmaps, !.result = costmaps]
    ELSE LET thresh   == st.thresholds[st.i]
             costmaps == _build_costmaps_at_threshold(map_data, map_data.transitions,
                                                      inflation_radius, thresh)
         IN [st EXCEPT !.pc = "verify", !.tried = Append(@, thresh), !.costmaps = costmaps]

\* lines 532-537: the rest of the iteration
EscalateVerify(map_data, st) ==
    IF DOMAIN st.costmaps = {}
    THEN [st EXCEPT !.pc = "loop", !.i = @ + 1]
    ELSE IF _verify_connectivity(st.costmaps, map_data, map_data.transitions)
    THEN [st EXCEPT !.pc = "done", !.result = st.costmaps]
    ELSE [st EXCEPT !.pc = "loop", !.i = @ + 1]

EscalateStep(map_data, inflation_radius, st) ==
    IF st.pc = "loop" THEN EscalateBuild(map_data, inflation_radius, st)
    ELSE EscalateVerify(map_data, st)

RECURSIVE EscalateRun(_, _, _)
EscalateRun(map_data, inflation_radius, st) ==
    IF st.pc = "done" THEN st
    ELSE EscalateRun(map_data, inflation_radius, EscalateStep(map_data, inflation_radius, st))

build_costmaps_from_map_data(map_data, inflation_radius, occupancy_threshold) ==
    EscalateRun(map_data, inflation_radius, EscalateBegin(occupancy_threshold)).result

\* ------------------------------------------------------------------------
\* Multi-waypoint routing
\* ------------------------------------------------------------------------
\* lines 476-483: the world path of a cell path and its length in 1/100000
\* of a world unit
RECURSIVE PathWorld(_, _, _)
PathWorld(cells, cm, lvl) ==
    IF cells = <<>> THEN <<>>
    ELSE LET xy == cell_to_world(cells[1][1], cells[1][2], cm.origin)
         IN << <<xy[1], xy[2], lvl>> >> \o PathWorld(Tail(cells), cm, lvl)

RECURSIVE PathDistance(_)
PathDistance(pw) ==
    IF Len(pw) <= 1 THEN 0
    ELSE Sqrt5(DistSq(pw[1], pw[2])) + PathDistance(Tail(pw))

\* _route_same_level: [ok |-> FALSE] stands for None
_route_same_level(cm, wp_a, wp_b, lvl) ==
    LET startCell  == world_to_cell(wp_a.slam_x, wp_a.slam_y, cm.origin)
        goalCell   == world_to_cell(wp_b.slam_x, wp_b.slam_y, cm.origin)
        path_cells == astar(cm, startCell, goalCell, DefaultMaxIterations)
    IN IF ~ path_cells.ok THEN [ok |-> FALSE]
       ELSE LET path_world == PathWorld(smooth_path(path_cells.path, cm, 1), cm, lvl)
            IN [ok |-> TRUE, path |-> path_world, distance_m |-> PathDistance(path_world)]

\* _find_transition: the first matching transition, <<>> for None
_find_transition(transitions, from_level, to_level) ==
    LET M == { k \in 1 .. Len(transitions) :
                 \/ (transitions[k].from_level = from_level /\ transitions[k].to_level = to_level)
                 \/ (transitions[k].from_level = to_level /\ transitions[k].to_level = from_level) }
    IN IF M = {} THEN <<>> ELSE transitions[MinOf(M)]

\* the state of route_through_waypoints before its first statement; i is the
\* 0-based index of the loop, result is [ok |-> FALSE] for None
RouteIdle ==
    [pc |-> "init", i |-> 0, all_path |-> <<>>, segments |-> <<>>, total_dist |-> 0,
     levels_used |-> {}, result |-> [ok |-> FALSE]]

\* path[1:] of Python
Rest(p) == IF p = <<>> THEN <<>> ELSE Tail(p)

\* lines 376-382
RouteBegin(waypoints) ==
    IF Len(waypoints) < 2 THEN [RouteIdle EXCEPT !.pc = "done"]
    ELSE [RouteIdle EXCEPT !.pc = "loop"]

RouteFail(st) == [st EXCEPT !.pc = "done", !.result = [ok |-> FALSE]]

\* level_costmaps[level] with a level that has no costmap raises KeyError
\* (lines 393, 414, 420): the call ends without a value
RouteRaise(st) == [st EXCEPT !.pc = "raised"]

\* the transition crossing segment of lines 425-436
TransSeg_unit(i, trans, level_a, level_b) ==
    [start_wp |-> i, end_wp |-> i + 1,
     path |-> << <<trans.x, trans.y, level_a>>, <<trans.x, trans.y, level_b>> >>,
     distance_m |-> 100000, is_transition |-> TRUE, from_level |-> level_a, to_level |-> level_b]
TransSeg(i, trans, level_a, level_b) ==
    [start_wp |-> i, end_wp |-> i + 1,
     path |-> << <<trans.x, trans.y, level_a>>, <<trans.x, trans.y, level_b>> >>,
     distance_m |-> 0, is_transition |-> TRUE, from_level |-> level_a, to_level |-> level_b]

\* lines 390-400: both waypoints on one level
RouteSame(level_costmaps, st, wp_a, wp_b) ==
    LET segment == _route_same_level(level_costmaps[wp_a.level], wp_a, wp_b, wp_a.level)
    IN IF wp_a.level \notin DOMAIN level_costmaps THEN RouteRaise(st)
       ELSE IF ~ segment.ok THEN RouteFail(st)
       ELSE [st EXCEPT
               !.segments = Append(@, [path |-> segment.path, distance_m |-> segment.distance_m]),
               !.all_path = @ \o (IF st.all_path = <<>> THEN segment.path ELSE Rest(segment.path)),
               !.total_dist = @ + segment.distance_m,
               !.levels_used = @ \cup {wp_a.level},
               !.i = @ + 1]

\* lines 402-448: the waypoints are on different levels
RouteCross(level_costmaps, st, wp_a, wp_b, transitions) ==
    LET level_a == wp_a.level
        level_b == wp_b.level
        trans   == IF transitions = <<>> THEN <<>>
                   ELSE _find_transition(transitions, level_a, level_b)
    IN IF trans = <<>> THEN RouteFail(st)
       ELSE LET trans_wp   == [slam_x |-> trans.x, slam_y |-> trans.y, level |-> level_a]
                seg1       == _route_same_level(level_costmaps[level_a], wp_a, trans_wp, level_a)
                trans_wp_b == [slam_x |-> trans.x, slam_y |-> trans.y, level |-> level_b]
                seg2       == _route_same_level(level_costmaps[level_b], trans_wp_b, wp_b, level_b)
                trans_seg  == TransSeg(st.i, trans, level_a, level_b)
            IN IF level_a \notin DOMAIN level_costmaps THEN RouteRaise(st)
               ELSE IF ~ seg1.ok THEN RouteFail(st)
               ELSE IF level_b \notin DOMAIN level_costmaps THEN RouteRaise(st)
               ELSE IF ~ seg2.ok THEN RouteFail(st)
               ELSE [st EXCEPT
                       !.segments = @ \o
                          << [start_wp |-> st.i, end_wp |-> "transition",
                              path |-> seg1.path, distance_m |-> seg1.distance_m],
                             trans_seg,
                             [start_wp |-> "transition", end_wp |-> st.i + 1,
                              path |-> seg2.path, distance_m |-> seg2.distance_m] >>,
                       !.all_path = (@ \o (IF st.all_path = <<>> THEN seg1.path ELSE Rest(seg1.path)))
                                    \o Rest(trans_seg.path) \o Rest(seg2.path),
                       !.total_dist = @ + (seg1.distance_m + seg2.distance_m),
                       !.levels_used = @ \cup {level_a, level_b},
                       !.i = @ + 1]

\* lines 384-455: one test of the loop range and, if it holds, one iteration
RouteStep(level_costmaps, waypoints, transitions, st) ==
    IF ~ (st.i < Len(waypoints) - 1)
    THEN [st EXCEPT !.pc = "done",
                    !.result = [ok |-> TRUE, path |-> st.all_path, segments |-> st.segments,
                                total_distance_m |-> st.total_dist,
                                levels_used |-> st.levels_used]]
    ELSE LET wp_a == waypoints[st.i + 1]
             wp_b == waypoints[st.i + 2]
         IN IF wp_a.level = wp_b.level
            THEN RouteSame(level_costmaps, st, wp_a, wp_b)
            ELSE RouteCross(level_costmaps, st, wp_a, wp_b, transitions)

\* ------------------------------------------------------------------------
\* Junction detection (junctions.py)
\* ------------------------------------------------------------------------
\* Angles are integers in 1/1000 of a degree.
Pi == 180000

\* _classify_junction
_classify_junction(num_passages, angles) ==
    IF num_passages = 2
    THEN LET diff == Abs(angles[2] - angles[1])
         IN IF diff < Pi \div 3 THEN "fork" ELSE "bend"
    ELSE IF num_passages = 3 THEN "t_junction"
    ELSE IF num_passages = 4 THEN "crossroads"
    ELSE <<"junction", num_passages>>

\* math.atan2(y, x) for |y|, |x| <= search_radius, in 1/1000 of a degree;
\* AtanTable[y + 1][x + 1] is the angle of the first quadrant
AtanTable ==
    <<<<0, 0, 0, 0, 0, 0, 0, 0, 0>>,
       <<90000, 45000, 26565, 18435, 14036, 11310, 9462, 8130, 7125>>,
       <<90000, 63435, 45000, 33690, 26565, 21801, 18435, 15945, 14036>>,
       <<90000, 71565, 56310, 45000, 36870, 30964, 26565, 23199, 20556>>,
       <<90000, 75964, 63435, 53130, 45000, 38660, 33690, 29745, 26565>>,
       <<90000, 78690, 68199, 59036, 51340, 45000, 39806, 35538, 32005>>,
       <<90000, 80538, 71565, 63435, 56310, 50194, 45000, 40601, 36870>>,
       <<90000, 81870, 74055, 66801, 60255, 54462, 49399, 45000, 41186>>,
       <<90000, 82875, 75964, 69444, 63435, 57995, 53130, 48814, 45000>> >>
atan2(y, x) ==
    IF y < 0 THEN 0 - (IF x < 0 THEN Pi - AtanTable[1 - y][1 - x] ELSE AtanTable[1 - y][x + 1])
    ELSE IF x < 0 THEN Pi - AtanTable[y + 1][1 - x]
    ELSE AtanTable[y + 1][x + 1]

\* the cells of rows 1..h-2 and columns 1..w-2
Interior(h, w) == (1 .. (h - 2)) \X (1 .. (w - 2))
Offsets8 == { d \in ((0 - 1) .. 1) \X ((0 - 1) .. 1) : d # <<0, 0>> }
SkeletonNeighbours(skeleton, c) ==
    { d \in Offsets8 : <<c[1] + d[1], c[2] + d[2]>> \in skeleton }

\* _thin_skeleton, one pass of the loop body: a skeleton is a set of cells
ThinPass(skeleton, h, w) ==
    skeleton \ { c \in skeleton \cap Interior(h, w) :
                   LET nb == SkeletonNeighbours(skeleton, c)
                   IN /\ Cardinality(nb) = 2
                      /\ ~ \E a \in nb, b \in nb :
                             a # b /\ a[1] + b[1] = 0 /\ a[2] + b[2] = 0 }

\* _extract_skeleton, lines 106-129, the skeleton before thinning: dist holds squared distances, so
\* dist >= max(1.0, min_width_cells * 0.5) is 4 * dist >= max(2, min_width_cells)^2
RidgePairs ==
    { << <<0 - 1, 0>>, <<1, 0>> >>, << <<0, 0 - 1>>, <<0, 1>> >>,
      << <<0 - 1, 0 - 1>>, <<1, 1>> >>, << <<0 - 1, 1>>, <<1, 0 - 1>> >> }
Ridges(free_mask, dist, min_width_cells, h, w) ==
    { c \in Interior(h, w) :
        /\ free_mask[c]
        /\ 4 * dist[c] >= Max2(2, min_width_cells) * Max2(2, min_width_cells)
        /\ \E p \in RidgePairs :
             /\ dist[c] >= dist[<<c[1] + p[1][1], c[2] + p[1][2]>>]
             /\ dist[c] >= dist[<<c[1] + p[2][1], c[2] + p[2][2]>>] }

\* a set of cells as the list of a row-by-row scan
RECURSIVE ScanList(_)
ScanList(S) ==
    IF S = {} THEN <<>>
    ELSE LET c == FirstScanned(S) IN <<c>> \o ScanList(S \ {c})

\* _find_branch_points
_find_branch_points(skeleton, h, w) ==
    ScanList({ c \in skeleton \cap Interior(h, w) :
                 Cardinality(SkeletonNeighbours(skeleton, c)) >= 3 })

\* _cluster_points: used is the set of indices already in a cluster
RECURSIVE SumOf(_, _)
SumOf(s, k) == IF s = <<>> THEN 0 ELSE Head(s)[k] + SumOf(Tail(s), k)
RECURSIVE ClusterFrom(_, _, _, _)
ClusterFrom(points, i, used, radius_cells) ==
    IF i > Len(points) THEN <<>>
    ELSE IF i \in used THEN ClusterFrom(points, i + 1, used, radius_cells)
    ELSE LET members == { j \in (i + 1) .. Len(points) :
                            /\ j \notin used
                            /\ Abs(points[j][1] - points[i][1]) <= radius_cells
                            /\ Abs(points[j][2] - points[i][2]) <= radius_cells }
             cluster == <<points[i]>> \o [k \in 1 .. Cardinality(members) |->
                           points[CHOOSE j \in members :
                                    Cardinality({ m \in members : m < j }) = k - 1]]
             mean == << RoundHalfEven(SumOf(cluster, 1), Len(cluster)),
                        RoundHalfEven(SumOf(cluster, 2), Len(cluster)) >>
         IN <<mean>> \o ClusterFrom(points, i + 1, used \cup {i} \cup members, radius_cells)
_cluster_points(points, radius_cells) == ClusterFrom(points, 1, {}, radius_cells)

\* _compute_passage_angles, lines 249-259: the ring cells, then their angles
\* in ascending order (list.sort)
RingOf(skeleton, center_r, center_c, h, w, search_radius) ==
    { c \in skeleton :
        /\ c[1] \in Max2(0, center_r - search_radius) .. (Min2(h, center_r + search_radius + 1) - 1)
        /\ c[2] \in Max2(0, center_c - search_radius) .. (Min2(w, center_c + search_radius + 1) - 1)
        /\ 4 * DistSq(c, <<center_r, center_c>>) >= search_radius * search_radius
        /\ DistSq(c, <<center_r, center_c>>) <= search_radius * search_radius }
RECURSIVE SortedAngles(_, _, _)
SortedAngles(S, center_r, center_c) ==
    IF S = {} THEN <<>>
    ELSE LET ang(c) == atan2(c[1] - center_r, c[2] - center_c)
             c == CHOOSE x \in S : \A y \in S :
                      \/ ang(x) < ang(y)
                      \/ ang(x) = ang(y) /\ (x[1] < y[1] \/ (x[1] = y[1] /\ x[2] <= y[2]))
         IN <<ang(c)>> \o SortedAngles(S \ {c}, center_r, center_c)

\* lines 265-275: passages is the list of closed groups, current the open one
RECURSIVE GroupFrom(_, _, _, _)
GroupFrom(ring_cells, i, passages, current_group) ==
    IF i > Len(ring_cells) THEN [passages |-> passages, current_group |-> current_group]
    ELSE IF ring_cells[i] - ring_cells[i - 1] > Pi \div 4
         THEN GroupFrom(ring_cells, i + 1, Append(passages, current_group), <<ring_cells[i]>>)
         ELSE GroupFrom(ring_cells, i + 1, passages, Append(current_group, ring_cells[i]))
RECURSIVE Total(_)
Total(s) == IF s = <<>> THEN 0 ELSE Head(s) + Total(Tail(s))
Average(group) ==
    IF Total(group) >= 0 THEN Total(group) \div Len(group)
    ELSE 0 - ((0 - Total(group)) \div Len(group))
_compute_passage_angles(skeleton, center_r, center_c, h, w, search_radius) ==
    LET ring_cells == SortedAngles(RingOf(skeleton, center_r, center_c, h, w, search_radius),
                                   center_r, center_c)
    IN IF ring_cells = <<>> THEN <<>>
       ELSE LET g == GroupFrom(ring_cells, 2, <<>>, <<ring_cells[1]>>)
                wrap_gap == 2 * Pi - (ring_cells[Len(ring_cells)] - ring_cells[1])
                passages ==
                    IF Len(g.passages) > 0
                    THEN IF wrap_gap > Pi \div 4
                         THEN Append(g.passages, g.current_group)
                         ELSE <<g.current_group \o g.passages[1]>> \o Tail(g.passages)
                    ELSE <<g.current_group>>
            IN [k \in 1 .. Len(passages) |-> Average(passages[k])]

\* detect_junctions, lines 73-95: the junction of each cluster centre
JunctionAt(occ, skeleton, center) ==
    LET angles == _compute_passage_angles(skeleton, center[1], center[2],
                                          occ.height, occ.width, 8)
        xy == cell_to_world(center[1], center[2], occ.origin)
    IN IF occ.grid[center] \/ Len(angles) < 2 THEN <<>>
       ELSE << [slam_x |-> xy[1], slam_y |-> xy[2],
                num_passages |-> Len(angles),
                passage_angles |-> angles,
                junction_type |-> _classify_junction(Len(angles), angles),
                cell |-> center] >>
RECURSIVE JunctionsOf(_, _, _)
JunctionsOf(occ, skeleton, clusters) ==
    IF clusters = <<>> THEN <<>>
    ELSE JunctionAt(occ, skeleton, Head(clusters)) \o JunctionsOf(occ, skeleton, Tail(clusters))

\* detect_junctions, lines 43-59 up to the thinning loop
DetectBegin(occ, min_width_cells) ==
    LET free_mask == [c \in CellsOf(occ) |-> ~ occ.grid[c]]
        dist == distance_transform_edt(free_mask)
    IN [pc |-> "thin", occ |-> occ, min_width_cells |-> min_width_cells,
        skeleton |-> Ridges(free_mask, dist, min_width_cells, occ.height, occ.width),
        iterations |-> 0, junctions |-> <<>>]
\* _thin_skeleton: one iteration of the loop, at most max_iterations = 5
ThinStep(st) ==
    LET border == ThinPass(st.skeleton, st.occ.height, st.occ.width)
    IN [st EXCEPT !.skeleton = border,
                  !.iterations = @ + 1,
                  !.pc = IF border = st.skeleton \/ st.iterations + 1 = 5
                         THEN "branch" ELSE "thin"]
\* detect_junctions, lines 61-97
DetectFinish(st) ==
    LET branch_points == _find_branch_points(st.skeleton, st.occ.height, st.occ.width)
        clusters == _cluster_points(branch_points, 4)
    IN [st EXCEPT !.pc = "done",
                  !.junctions = IF st.skeleton = {} \/ branch_points = <<>> THEN <<>>
                                ELSE JunctionsOf(st.occ, st.skeleton, clusters)]

\* ------------------------------------------------------------------------
\* Turn-by-turn instructions (instructions.py)
\* ------------------------------------------------------------------------
\* A float of degrees is a pair <<v, e>>: v is the value in 1/1000 of a degree
\* and e in {-1, 0, 1} is the sign of a magnitude below half an ulp of 1.0
\* (such as 1e-17) that only the value 0 carries.  Sums and differences of the
\* values used are exact in binary64, and adding such a magnitude to a value
\* of at least one degree rounds back to that value.
Float(v) == <<v, 0>>
Sign(n) == IF n > 0 THEN 1 ELSE IF n < 0 THEN 0 - 1 ELSE 0
FloatSub(a, b) ==
    IF a[1] - b[1] # 0 THEN <<a[1] - b[1], 0>> ELSE <<0, Sign(a[2] - b[2])>>
\* float % 360: fmod keeps the sign of the dividend, and a negative remainder
\* has 360 added to it, which rounds to 360.0 when the remainder is tiny
FloatMod360(x) ==
    IF x[2] = 0 THEN <<x[1] % (2 * Pi), 0>>
    ELSE IF x[2] > 0 THEN x
    ELSE <<2 * Pi, 0>>

_COMPASS_POINTS ==
    <<"N", "NNE", "NE", "ENE", "E", "ESE", "SE", "SSE",
      "S", "SSW", "SW", "WSW", "W", "WNW", "NW", "NNW">>

\* _compass_name: int(round(degrees / 22.5)) % 16
_compass_name(degrees) == _COMPASS_POINTS[(RoundHalfEven(degrees[1], 22500) % 16) + 1]

\* _normalize_angle
RECURSIVE _normalize_angle(_)
_normalize_angle(angle) ==
    IF angle > Pi THEN _normalize_angle(angle - 2 * Pi)
    ELSE IF angle < 0 - Pi THEN _normalize_angle(angle + 2 * Pi)
    ELSE angle

\* _relative_direction: deg is math.degrees(heading_change_rad)
_relative_direction_open(deg) ==
    IF Abs(deg) < 20000 THEN "continue_straight"
    ELSE IF 20000 <= deg /\ deg < 45000 THEN "bear_right"
    ELSE IF 45000 <= deg /\ deg < 135000 THEN "turn_right"
    ELSE IF deg >= 135000 THEN "turn_around_right"
    ELSE IF 0 - 45000 <= deg /\ deg <= 0 - 20000 THEN "bear_left"
    ELSE IF 0 - 135000 <= deg /\ deg <= 0 - 45000 THEN "turn_left"
    ELSE "turn_around_left"
_relative_direction(deg) ==
    IF Abs(deg) < 20000 THEN "continue_straight"
    ELSE IF 20000 <= deg /\ deg < 45000 THEN "bear_right"
    ELSE IF 45000 <= deg /\ deg < 135000 THEN "turn_right"
    ELSE IF deg >= 135000 THEN "turn_around_right"
    ELSE IF 0 - 45000 < deg /\ deg <= 0 - 20000 THEN "bear_left"
    ELSE IF 0 - 135000 < deg /\ deg <= 0 - 45000 THEN "turn_left"
    ELSE "turn_around_left"

\* _heading_between: a path point is <<x, y, level>>
_heading_between(p1, p2) == atan2(p2[2] - p1[2], p2[1] - p1[1])

\* _slam_heading_to_compass: slam_deg is math.degrees(slam_heading_rad)
_slam_heading_to_compass(slam_deg, heading_offset_deg) ==
    FloatMod360(FloatSub(heading_offset_deg, slam_deg))

\* _grid_key: coordinates and cell sizes in quarters of a metre
HalfMetre == 2
OneMetre == 4
_grid_key(x, y, cell_size) == <<RoundHalfEven(x, cell_size), RoundHalfEven(y, cell_size)>>

\* _build_spatial_index: the first item of each key; <<>> stands for a miss
_build_spatial_index(items, snap_radius) ==
    [k \in { _grid_key(items[n].slam_x, items[n].slam_y, snap_radius) : n \in DOMAIN items } |->
        items[MinOf({ n \in DOMAIN items :
                        _grid_key(items[n].slam_x, items[n].slam_y, snap_radius) = k })]]
IndexGet(index, key) == IF key \in DOMAIN index THEN index[key] ELSE <<>>

\* _point_side
_point_side(p_prev, p_curr, poi) ==
    LET dx == p_curr[1] - p_prev[1]
        dy == p_curr[2] - p_prev[2]
        px == poi.slam_x - p_curr[1]
        py == poi.slam_y - p_curr[2]
    IN IF dx * py - dy * px > 0 THEN "left" ELSE "right"

\* _POI_SPEED_MULTIPLIERS in tenths (.get(poi_type, 1.0)) and
\* _POI_TIME_PENALTIES in milliseconds (.get(poi_type, 0.0))
_POI_SPEED_MULTIPLIERS(poi_type) ==
    IF poi_type = "squeeze" THEN 5 ELSE IF poi_type = "water" THEN 3 ELSE 10
_POI_TIME_PENALTIES(poi_type) ==
    IF poi_type = "transition" THEN 300000 ELSE IF poi_type = "hazard" THEN 120000 ELSE 0

\* the default speed_kmh
DefaultSpeedKmh == 1

\* _segment_time in milliseconds: seg_dist is the distance in 1/100000 of a
\* quarter metre, so that distance_m / (speed_kmh * 1000 / 3600 * multiplier)
\* is seg_dist * 90 / (1000 * speed_kmh * tenths) milliseconds
_segment_time(seg_dist, speed_kmh, point, poi_index) ==
    LET nearby == IndexGet(poi_index, _grid_key(point[1], point[2], OneMetre))
        tenths == IF nearby # <<>> THEN _POI_SPEED_MULTIPLIERS(nearby.poi_type) ELSE 10
        penalty == IF nearby # <<>> THEN _POI_TIME_PENALTIES(nearby.poi_type) ELSE 0
    IN (seg_dist * 90) \div (1000 * speed_kmh * tenths) + penalty

\* the fields of an instruction dict that the model keeps
Instruction(instructions, type, p, heading, heading_offset_deg, relative_direction) ==
    [index |-> Len(instructions), type |-> type,
     slam_x |-> p[1], slam_y |-> p[2], level |-> p[3],
     heading_deg |-> heading,
     compass_heading |-> _slam_heading_to_compass(Float(heading), heading_offset_deg),
     compass_name |-> _compass_name(_slam_heading_to_compass(Float(heading), heading_offset_deg)),
     relative_direction |-> relative_direction]

\* generate_instructions, lines 97-145
InstrBegin(route_result, junctions, pois, heading_offset_deg) ==
    LET p == route_result.path
        st == [route_result |-> route_result, junctions |-> junctions, pois |-> pois,
               heading_offset_deg |-> heading_offset_deg,
               i |-> 1, instructions |-> <<>>, prev_heading |-> 0,
               pois_mentioned |-> {}, cumulative_time |-> 0, total_time_s |-> 0,
               pc |-> "done"]
    IN IF Len(p) < 2 THEN st
       ELSE LET start_heading == _heading_between(p[1], p[2])
            IN [st EXCEPT !.pc = "walk",
                          !.prev_heading = start_heading,
                          !.instructions = << Instruction(<<>>, "start", p[1], start_heading,
                                                          heading_offset_deg, "start") >>]

\* lines 148-281, one iteration of the loop: Python's i is st.i and path[i]
\* is p[st.i + 1]
InstrWalk(st) ==
    LET p == st.route_result.path
        n == Len(p)
        i == st.i
        p_prev == p[i]
        p_curr == p[i + 1]
        seg_time == _segment_time(Sqrt5(DistSq(p_curr, p_prev)), DefaultSpeedKmh, p_curr,
                                  _build_spatial_index(st.pois, OneMetre))
        next == [st EXCEPT !.i = i + 1, !.pc = IF i + 1 < n THEN "walk" ELSE "end",
                           !.cumulative_time = @ + seg_time]
    IN IF p_curr[3] # p_prev[3]
       THEN [next EXCEPT !.instructions =
               Append(@, Instruction(st.instructions, "transition", p_curr, st.prev_heading,
                                     st.heading_offset_deg, "transition"))]
       ELSE IF i >= n - 1 THEN next
       ELSE LET outgoing_heading == _heading_between(p_curr, p[i + 2])
                heading_change == _normalize_angle(outgoing_heading - st.prev_heading)
                nearby_junction ==
                    IndexGet(_build_spatial_index(st.junctions, HalfMetre),
                             _grid_key(p_curr[1], p_curr[2], HalfMetre))
                nearby_poi ==
                    IndexGet(_build_spatial_index(st.pois, OneMetre),
                             _grid_key(p_curr[1], p_curr[2], OneMetre))
                with_junction ==
                    IF nearby_junction # <<>> /\ Abs(heading_change) > 15000
                    THEN Append(st.instructions,
                                Instruction(st.instructions, "junction", p_curr, outgoing_heading,
                                            st.heading_offset_deg,
                                            _relative_direction(heading_change)))
                    ELSE st.instructions
                mention == nearby_poi # <<>> /\ nearby_poi.id \notin st.pois_mentioned
                with_poi ==
                    IF mention
                    THEN Append(with_junction,
                                Instruction(with_junction, "poi", p_curr, st.prev_heading,
                                            st.heading_offset_deg, "poi"))
                    ELSE with_junction
            IN [next EXCEPT !.instructions = with_poi,
                            !.pois_mentioned = IF mention THEN @ \cup {nearby_poi.id} ELSE @,
                            !.prev_heading = outgoing_heading]

\* lines 283-321
InstrEnd(st) ==
    LET p == st.route_result.path
    IN [st EXCEPT !.pc = "done",
                  !.total_time_s = RoundHalfEven(st.cumulative_time, 100),
                  !.instructions = Append(@, Instruction(st.instructions, "end", p[Len(p)],
                                                         st.prev_heading, st.heading_offset_deg,
                                                         "end"))]

\* the state of the junction code before a call
JunctionIdle == [pc |-> "idle"]
InstrIdle == [pc |-> "idle"]
HeadingIdle == [pc |-> "idle"]

\* ------------------------------------------------------------------------
\* State
\* ------------------------------------------------------------------------
VARIABLES
    costmap,              \* the Costmap a search or a smoothing runs on
    start, goal,          \* astar's endpoints (cells)
    max_iterations,       \* astar's iteration bound
    search,               \* astar's locals
    level,                \* one level of map_data
    transitions,          \* map_data['transitions']
    inflation_radius,     \* inflation_radius_m, in world units
    occupancy_threshold,  \* the threshold of the build, in 1/100
    occ,                  \* the OccupancyGrid under construction
    build_pc,             \* position in _build_costmaps_at_threshold
    path,                 \* smooth_path's argument
    smooth,               \* smooth_path's locals
    level_costmaps,       \* route_through_waypoints' costmaps by level
    waypoints,            \* route_through_waypoints' waypoints
    route,                \* route_through_waypoints' locals
    map_data,             \* build_costmaps_from_map_data's map_data
    escalate,             \* build_costmaps_from_map_data's locals
    junction,             \* detect_junctions' arguments and locals
    instr,                \* generate_instructions' arguments and locals
    heading               \* the argument and result of a heading helper

vars == <<costmap, start, goal, max_iterations, search, level, transitions,
          inflation_radius, occupancy_threshold, occ, build_pc, path, smooth,
          level_costmaps, waypoints, route, map_data, escalate,
          junction, instr, heading>>

searchVars == <<costmap, start, goal, max_iterations, search>>
buildVars  == <<level, transitions, inflation_radius, occupancy_threshold, occ, build_pc>>
smoothVars == <<path, smooth>>
routeVars  == <<level_costmaps, waypoints, route>>
escalateVars == <<map_data, escalate>>
coreVars == <<junction, instr, heading>>

\* the values of the variables an operation does not use
NoSearch == /\ start = <<>> /\ goal = <<>> /\ max_iterations = 0 /\ search = SearchIdle
NoBuild  == /\ level = <<>> /\ inflation_radius = 0 /\ occupancy_threshold = 0
            /\ occ = <<>> /\ build_pc = "-"
NoSmooth == /\ path = <<>> /\ smooth = SmoothIdle
NoRoute  == /\ level_costmaps = <<>> /\ waypoints = <<>> /\ route = RouteIdle
NoEscalate == /\ map_data = <<>> /\ escalate = EscalateIdle
NoJunction == junction = JunctionIdle
NoInstr == instr = InstrIdle
NoHeading == heading = HeadingIdle

\* ------------------------------------------------------------------------
\* SpecAstar: astar on synthetic costmaps
\* ------------------------------------------------------------------------
\* Grids of two rows and GridW columns.  At most MaxWalls cells are special,
\* each lethal or (at most MaxRough of them) of the higher cost RoughCost;
\* every other cell has one base cost.
StripRows == 0 .. 1
Cells == StripRows \X (0 .. (GridW - 1))
CostChoices == {100, 250}
NoGrid == [c \in Cells |-> FALSE]
SyntheticCostmaps ==
    { [height |-> Cardinality(StripRows), width |-> GridW, origin |-> <<0, 0>>,
       grid |-> NoGrid, distance_field |-> <<>>, traj_distance |-> <<>>,
       cost |-> [c \in Cells |-> IF c \in W[1] THEN Inf
                                 ELSE IF c \in W[2] THEN RoughCost ELSE W[3]]] :
        W \in { X \in (SUBSET Cells) \X (SUBSET Cells) \X CostChoices :
                  /\ X[1] \cap X[2] = {}
                  /\ Cardinality(X[2]) <= MaxRough
                  /\ Cardinality(X[1]) + Cardinality(X[2]) <= MaxWalls
                  /\ (X[2] # {} => X[3] = 100) } }

FarCol == GridW - 1 + MaxRadius
\* endpoints: every cell of the grid, one cell just outside it, and cells at
\* ring distance MaxRadius and MaxRadius + 1 from the last column
StartChoices == Cells \cup { <<0 - 1, 0 - 1>>, <<0, FarCol>>, <<0, FarCol + 1>> }
GoalChoices == Cells \cup { <<0 - 1, 0 - 1>>, <<0, FarCol + 1>> }

InitAstar ==
    /\ costmap \in SyntheticCostmaps
    /\ start \in StartChoices
    /\ goal \in GoalChoices
    /\ max_iterations \in {MaxIterSmall, DefaultMaxIterations}
    /\ search = SearchIdle
    /\ transitions = <<>>
    /\ NoBuild /\ NoSmooth /\ NoRoute /\ NoEscalate
    /\ NoJunction /\ NoInstr /\ NoHeading

Begin ==
    /\ search.pc = "init"
    /\ search' = AstarBegin(costmap, start, goal)
    /\ UNCHANGED <<costmap, start, goal, max_iterations, buildVars, smoothVars, routeVars, escalateVars, coreVars>>

Iterate ==
    /\ search.pc = "loop"
    /\ search' = AstarStep(costmap, search, max_iterations)
    /\ UNCHANGED <<costmap, start, goal, max_iterations, buildVars, smoothVars, routeVars, escalateVars, coreVars>>

NextAstar == Begin \/ Iterate

SpecAstar == InitAstar /\ [][NextAstar]_vars

\* ------------------------------------------------------------------------
\* SpecBuild: _build_costmaps_at_threshold on one level
\* ------------------------------------------------------------------------
\* Heatmaps of two rows and MapW columns; at most MaxDense cells have a
\* non-zero density.
MapW == GridW + 1
MapCells == StripRows \X (0 .. (MapW - 1))
DensityChoices == {40, 100}
Thresholds == {25, 50}

Heatmaps(values) ==
    { [data |-> d, origin |-> <<0, 0>>, width |-> MapW, height |-> Cardinality(StripRows)] :
        d \in { f \in [MapCells -> values \cup {0}] :
                  Cardinality({ c \in MapCells : f[c] # 0 }) <= MaxDense } }

\* world points: the centres of two opposite corner cells, a point half way
\* between the centres of columns 1 and 2, a point one cell left of the grid
\* and a point four cells left of it
PointChoices ==
    { <<0, 0>>, <<Resolution * (MapW - 1), Resolution>>, <<Resolution + (Resolution \div 2), 0>>,
      <<0 - Resolution, Resolution>>, <<0 - 4 * Resolution, 0>> }

SeqsUpTo(S, n) == UNION { [1 .. k -> S] : k \in 0 .. n }

TransitionChoices ==
    { <<>>,
      << [from_level |-> 0, to_level |-> 1, x |-> Resolution * (MapW - 1), y |-> 0] >>,
      << [from_level |-> 1, to_level |-> 2, x |-> 0, y |-> 0],
         [from_level |-> 0, to_level |-> 1, x |-> 0 - 4 * Resolution, y |-> 0] >> }

InitBuild ==
    /\ level \in { [index |-> 0, heatmap |-> h, trajectory |-> t] :
                     h \in Heatmaps(DensityChoices), t \in SeqsUpTo(PointChoices, MaxTraj) }
    /\ transitions \in TransitionChoices
    /\ inflation_radius \in {1, 2 * Resolution}
    /\ occupancy_threshold \in Thresholds
    /\ occ = <<>>
    /\ build_pc = "occupancy"
    /\ costmap = <<>>
    /\ NoSearch /\ NoSmooth /\ NoRoute /\ NoEscalate
    /\ NoJunction /\ NoInstr /\ NoHeading

BuildOccupancy ==
    /\ build_pc = "occupancy"
    /\ occ' = LevelOccupancy(level, occupancy_threshold)
    /\ build_pc' = "trajectory"
    /\ UNCHANGED <<costmap, start, goal, max_iterations, search, level, transitions,
                   inflation_radius, occupancy_threshold, smoothVars, routeVars, escalateVars, coreVars>>

MarkTrajectory ==
    /\ build_pc = "trajectory"
    /\ occ' = LevelMarked(occ, level)
    /\ build_pc' = "transitions"
    /\ UNCHANGED <<costmap, start, goal, max_iterations, search, level, transitions,
                   inflation_radius, occupancy_threshold, smoothVars, routeVars, escalateVars, coreVars>>

MarkTransitions ==
    /\ build_pc = "transitions"
    /\ occ' = LevelTransitionsMarked(occ, level, transitions, 1)
    /\ build_pc' = "costmap"
    /\ UNCHANGED <<costmap, start, goal, max_iterations, search, level, transitions,
                   inflation_radius, occupancy_threshold, smoothVars, routeVars, escalateVars, coreVars>>

BuildCostmap ==
    /\ build_pc = "costmap"
    /\ costmap' = LevelCostmap(occ, level, transitions, inflation_radius)
    /\ build_pc' = "built"
    /\ UNCHANGED <<start, goal, max_iterations, search, level, transitions,
                   inflation_radius, occupancy_threshold, occ, smoothVars, routeVars, escalateVars, coreVars>>

NextBuild == BuildOccupancy \/ MarkTrajectory \/ MarkTransitions \/ BuildCostmap

SpecBuild == InitBuild /\ [][NextBuild]_vars

\* ------------------------------------------------------------------------
\* SpecSmooth: smooth_path on the costmap of a built level, applied to the
\* path astar returns (as _route_same_level applies it, lines 468-473) or to
\* a given cell path
\* ------------------------------------------------------------------------
SmoothLevels ==
    { [index |-> 0, heatmap |-> h, trajectory |-> t] :
        h \in Heatmaps({100}), t \in { <<>>, << <<0, 0>> >> } }

\* cells of given paths: two corners, an inner cell and a cell above the grid
PathCells == { <<0, 0>>, <<0, MapW - 1>>, <<1, 1>>, <<0 - 1, 0>> }
GivenPaths == SeqsUpTo(PathCells, MaxPathLen)
PlanGoals == { <<0, MapW - 2>>, <<1, MapW - 1>> }

InitSmooth ==
    /\ costmap \in { BuildLevel(l, <<>>, 1, 50) : l \in SmoothLevels }
    /\ \/ start = <<>> /\ goal = <<>> /\ path \in GivenPaths
       \/ start = <<0, 0>> /\ goal \in PlanGoals /\ path = <<>>
    /\ max_iterations = DefaultMaxIterations
    /\ search = SearchIdle
    /\ smooth = SmoothIdle
    /\ transitions = <<>>
    /\ NoBuild /\ NoRoute /\ NoEscalate
    /\ NoJunction /\ NoInstr /\ NoHeading

\* line 468: path_cells = astar(costmap, start, goal)
PlanPath ==
    /\ start # <<>>
    /\ search.pc = "init"
    /\ search' = AstarRun(costmap, AstarBegin(costmap, start, goal), max_iterations)
    /\ path' = search'.result.path
    /\ UNCHANGED <<costmap, start, goal, max_iterations, smooth, buildVars, routeVars, escalateVars, coreVars>>

\* lines 469-473 and 308-312: smooth_path is entered unless astar returned None
SmoothEnter ==
    /\ smooth.pc = "init"
    /\ start = <<>> \/ (search.pc = "done" /\ search.result.ok)
    /\ smooth' = SmoothBegin(path)
    /\ UNCHANGED <<searchVars, path, buildVars, routeVars, escalateVars, coreVars>>

SmoothIterate ==
    /\ smooth.pc = "loop"
    /\ smooth' = SmoothStep(path, costmap, smooth, 1)
    /\ UNCHANGED <<searchVars, path, buildVars, routeVars, escalateVars, coreVars>>

NextSmooth == PlanPath \/ SmoothEnter \/ SmoothIterate

SpecSmooth == InitSmooth /\ [][NextSmooth]_vars

\* ------------------------------------------------------------------------
\* SpecRoute: route_through_waypoints over two built levels
\* ------------------------------------------------------------------------
WallAt(S) ==
    [data |-> [c \in MapCells |-> IF c \in S THEN 100 ELSE 0], origin |-> <<0, 0>>,
     width |-> MapW, height |-> Cardinality(StripRows)]

\* an empty level, one dense cell, and two dense cells whose inflation covers
\* the whole strip of four columns
RouteHeatmaps == { WallAt({}), WallAt({<<0, 1>>}), WallAt({<<0, 1>>, <<0, 2>>}) }
RouteLevels(idx) ==
    { [index |-> idx, heatmap |-> h, trajectory |-> t] :
        h \in RouteHeatmaps, t \in { <<>>, << <<0, 0>> >> } }

\* transitions: at the right corner cell, or four cells right of the grid
CornerX == Resolution * (MapW - 1)
FarX == Resolution * (MapW + 4)
RouteTransitions ==
    { <<>>,
      << [from_level |-> 0, to_level |-> 1, x |-> CornerX, y |-> 0] >>,
      << [from_level |-> 1, to_level |-> 0, x |-> FarX, y |-> 0] >>,
      << [from_level |-> 1, to_level |-> 2, x |-> 0, y |-> 0],
         [from_level |-> 0, to_level |-> 1, x |-> CornerX, y |-> 0] >> }

WaypointChoices ==
    { [slam_x |-> 0, slam_y |-> 0, level |-> 0],
      [slam_x |-> CornerX, slam_y |-> Resolution, level |-> 0],
      [slam_x |-> 0, slam_y |-> 0, level |-> 1],
      [slam_x |-> 0, slam_y |-> 0, level |-> 2] }

InitRoute ==
    /\ transitions \in RouteTransitions
    /\ level_costmaps \in
         { _build_costmaps_at_threshold([levels |-> <<l0, l1>>], transitions, 1, 50) :
             l0 \in RouteLevels(0), l1 \in RouteLevels(1) }
    /\ waypoints \in SeqsUpTo(WaypointChoices, MaxWp)
    /\ route = RouteIdle
    /\ costmap = <<>>
    /\ NoSearch /\ NoBuild /\ NoSmooth /\ NoEscalate
    /\ NoJunction /\ NoInstr /\ NoHeading

RouteEnter ==
    /\ route.pc = "init"
    /\ route' = RouteBegin(waypoints)
    /\ UNCHANGED <<searchVars, buildVars, smoothVars, level_costmaps, waypoints, escalateVars, coreVars>>

RouteIterate ==
    /\ route.pc = "loop"
    /\ route' = RouteStep(level_costmaps, waypoints, transitions, route)
    /\ UNCHANGED <<searchVars, buildVars, smoothVars, level_costmaps, waypoints, escalateVars, coreVars>>

NextRoute == RouteEnter \/ RouteIterate

SpecRoute == InitRoute /\ [][NextRoute]_vars

\* ------------------------------------------------------------------------
\* SpecEscalate: build_costmaps_from_map_data on maps of one or two levels
\* ------------------------------------------------------------------------
\* Strips of two rows and EscW columns whose only dense cell is <<0, 3>>: its
\* inflation cuts the strip in two unless the threshold frees the cell.
EscW == GridW + 5
EscCells == StripRows \X (0 .. (EscW - 1))
WallDensities == {0, 20, 30, 40, 60}
EscHeat(v) ==
    [data |-> [c \in EscCells |-> IF c = <<0, 3>> THEN v ELSE 0], origin |-> <<0, 0>>,
     width |-> EscW, height |-> Cardinality(StripRows)]

LeftPoint == <<0, 0>>
RightPoint == <<Resolution * (EscW - 1), 0>>
OutPoint == <<0 - Resolution, 0>>
EscTrajectories ==
    { <<>>, <<LeftPoint>>, <<LeftPoint, RightPoint>>, <<LeftPoint, RightPoint, LeftPoint>>,
      <<OutPoint, RightPoint>> }

EscLevels(idx) ==
    { [index |-> idx, heatmap |-> EscHeat(v), trajectory |-> t] :
        v \in WallDensities, t \in EscTrajectories }
    \cup { [index |-> idx, heatmap |-> <<>>, trajectory |-> <<LeftPoint>>] }

\* the second level: without a heatmap, open, or cut in two for good
SecondLevels ==
    { [index |-> 1, heatmap |-> <<>>, trajectory |-> <<LeftPoint>>],
      [index |-> 1, heatmap |-> EscHeat(0), trajectory |-> <<LeftPoint>>],
      [index |-> 1, heatmap |-> EscHeat(60), trajectory |-> <<LeftPoint, RightPoint>>] }

\* a level of 6 x 6 cells, all dense, walked from the top-left to the
\* bottom-right corner cell
DiagLevel ==
    [index |-> 0,
     heatmap |-> [data |-> [c \in (0 .. 5) \X (0 .. 5) |-> 100],
                  origin |-> <<0, 0>>, width |-> 6, height |-> 6],
     trajectory |-> << <<0, 0>>, <<Resolution * 5, Resolution * 5>> >>]

EscTransitions ==
    { <<>>,
      << [from_level |-> 0, to_level |-> 1, x |-> RightPoint[1], y |-> 0] >> }

InitEscalate ==
    /\ map_data \in
         { [levels |-> ls, transitions |-> ts] :
             ls \in { <<l0>> : l0 \in EscLevels(0) }
                    \cup { <<l0, l1>> : l0 \in EscLevels(0), l1 \in SecondLevels }
                    \cup { <<DiagLevel>> },
             ts \in EscTransitions }
    /\ inflation_radius = 1
    /\ occupancy_threshold \in {NoThreshold, 0, 35}
    /\ escalate = EscalateIdle
    /\ transitions = <<>>
    /\ level = <<>> /\ occ = <<>> /\ build_pc = "-"
    /\ costmap = <<>>
    /\ NoSearch /\ NoSmooth /\ NoRoute
    /\ NoJunction /\ NoInstr /\ NoHeading

\* lines 523-526
EscalateEnter ==
    /\ escalate.pc = "init"
    /\ transitions' = map_data.transitions
    /\ escalate' = EscalateBegin(occupancy_threshold)
    /\ UNCHANGED <<searchVars, level, inflation_radius, occupancy_threshold, occ, build_pc,
                   smoothVars, routeVars, map_data, coreVars>>

\* lines 528-531, 538-540
EscalateBuildStep ==
    /\ escalate.pc = "loop"
    /\ escalate' = EscalateBuild(map_data, inflation_radius, escalate)
    /\ map_data' = MapDataAfter(map_data, map_data.transitions)
    /\ UNCHANGED <<searchVars, buildVars, smoothVars, routeVars, coreVars>>

\* lines 532-537
EscalateVerifyStep ==
    /\ escalate.pc = "verify"
    /\ escalate' = EscalateVerify(map_data, escalate)
    /\ UNCHANGED <<searchVars, buildVars, smoothVars, routeVars, map_data, coreVars>>

NextEscalate == EscalateEnter \/ EscalateBuildStep \/ EscalateVerifyStep

SpecEscalate == InitEscalate /\ [][NextEscalate]_vars

\* ------------------------------------------------------------------------
\* SpecJunction: junction detection and classification
\* ------------------------------------------------------------------------
AngleChoices == { 15000 * k : k \in (0 - 11) .. 12 } \cup {170000, 0 - 170000}
PassageChoices ==
    { <<a, b>> : a \in AngleChoices, b \in AngleChoices }
    \cup { <<>>, <<0>>, <<0 - 90000, 0, 90000>>, <<0 - 90000, 0, 90000, Pi>>,
            <<0 - 120000, 0 - 60000, 0, 60000, 120000>> }

\* a grid of walls with a corridor: four arms of `arm` cells, `width` cells
\* wide, around a square centre; the shape "tee" has no lower arm
Corridor(shape, arm, width) ==
    LET n == 2 * arm + width + 2
        lo == 1 + arm
        hi == lo + width
        band(k) == lo <= k /\ k < hi
        free(c) == /\ c[1] \in 1 .. (n - 2) /\ c[2] \in 1 .. (n - 2)
                   /\ \/ band(c[1])
                      \/ band(c[2]) /\ ~ (shape = "tee" /\ c[1] >= hi)
    IN [origin |-> <<0, 0>>, width |-> n, height |-> n,
        grid |-> [c \in (0 .. (n - 1)) \X (0 .. (n - 1)) |-> ~ free(c)]]
Shapes == {"plus", "tee"}
\* <<arm, width>> in cells
CorridorChoices == { <<4, 1>>, <<4, 2>>, <<4, 4>>, <<8, 1>>, <<8, 2>> }
MinWidthChoices == {1, 2}
\* a small chamber of five free cells in a grid of 5 x 5 cells
ChamberFree == { <<1, 1>>, <<2, 1>>, <<2, 2>>, <<2, 3>>, <<3, 2>> }
Chamber ==
    [origin |-> <<0, 0>>, width |-> 5, height |-> 5,
     grid |-> [c \in (0 .. 4) \X (0 .. 4) |-> c \notin ChamberFree]]

InitJunction ==
    /\ junction \in
         { [pc |-> "classify", angles |-> a] : a \in PassageChoices }
         \cup { [pc |-> "detect", occ |-> Corridor(sh, aw[1], aw[2]), min_width_cells |-> mw] :
                  sh \in Shapes, aw \in CorridorChoices, mw \in MinWidthChoices }
         \cup { [pc |-> "detect", occ |-> Chamber, min_width_cells |-> mw] :
                  mw \in MinWidthChoices }
    /\ costmap = <<>> /\ transitions = <<>>
    /\ NoSearch /\ NoBuild /\ NoSmooth /\ NoRoute /\ NoEscalate
    /\ NoInstr /\ NoHeading

JunctionFrame ==
    UNCHANGED <<searchVars, buildVars, smoothVars, routeVars, escalateVars, instr, heading>>

\* junctions.py line 86, called on its own
Classify ==
    /\ junction.pc = "classify"
    /\ junction' = [pc |-> "classified", angles |-> junction.angles,
                    jtype |-> _classify_junction(Len(junction.angles), junction.angles)]
    /\ JunctionFrame

\* lines 43-59
DetectEnter ==
    /\ junction.pc = "detect"
    /\ junction' = DetectBegin(junction.occ, junction.min_width_cells)
    /\ JunctionFrame

\* lines 141-182
ThinIterate ==
    /\ junction.pc = "thin"
    /\ junction' = ThinStep(junction)
    /\ JunctionFrame

\* lines 61-97
DetectReturn ==
    /\ junction.pc = "branch"
    /\ junction' = DetectFinish(junction)
    /\ JunctionFrame

NextJunction == Classify \/ DetectEnter \/ ThinIterate \/ DetectReturn
SpecJunction == InitJunction /\ [][NextJunction]_vars

\* ------------------------------------------------------------------------
\* SpecHeading: the heading helpers of instructions.py, called on their own
\* ------------------------------------------------------------------------
\* heading changes in [-180, 180] degrees, whole degrees and the neighbours of
\* the thresholds
ChangeChoices ==
    { 1000 * k : k \in (0 - 180) .. 180 }
    \cup { s * (t + d) : s \in {0 - 1, 1}, t \in {20000, 45000, 135000}, d \in {0 - 1, 1} }
\* the smallest headings: a positive and a negative magnitude below 2^-54
TinyChoices == { <<0, 1>>, <<0, 0 - 1>> }
SlamChoices == { Float(22500 * k) : k \in (0 - 8) .. 8 } \cup TinyChoices
OffsetChoices == { Float(22500 * k) : k \in {0 - 4, 0, 1, 4, 16} }
NameChoices == { Float(11250 * k) : k \in (0 - 64) .. 96 } \cup TinyChoices

InitHeading ==
    /\ heading \in
         { [pc |-> "call", fn |-> "_relative_direction", deg |-> d] : d \in ChangeChoices }
         \cup { [pc |-> "call", fn |-> "_slam_heading_to_compass", slam_deg |-> h,
                 heading_offset_deg |-> o] : h \in SlamChoices, o \in OffsetChoices }
         \cup { [pc |-> "call", fn |-> "_compass_name", degrees |-> d] : d \in NameChoices }
    /\ costmap = <<>> /\ transitions = <<>>
    /\ NoSearch /\ NoBuild /\ NoSmooth /\ NoRoute /\ NoEscalate
    /\ NoJunction /\ NoInstr

HeadingFrame ==
    UNCHANGED <<searchVars, buildVars, smoothVars, routeVars, escalateVars, junction, instr>>

\* instructions.py lines 34-51
RelativeDirection ==
    /\ heading.pc = "call" /\ heading.fn = "_relative_direction"
    /\ heading' = [heading EXCEPT !.pc = "done"] @@ [result |-> _relative_direction(heading.deg)]
    /\ HeadingFrame

\* lines 61-74
SlamHeadingToCompass ==
    /\ heading.pc = "call" /\ heading.fn = "_slam_heading_to_compass"
    /\ heading' = [heading EXCEPT !.pc = "done"]
                  @@ [result |-> _slam_heading_to_compass(heading.slam_deg,
                                                          heading.heading_offset_deg)]
    /\ HeadingFrame

\* lines 19-22
CompassName ==
    /\ heading.pc = "call" /\ heading.fn = "_compass_name"
    /\ heading' = [heading EXCEPT !.pc = "done"] @@ [result |-> _compass_name(heading.degrees)]
    /\ HeadingFrame

NextHeading == RelativeDirection \/ SlamHeadingToCompass \/ CompassName
SpecHeading == InitHeading /\ [][NextHeading]_vars

\* ------------------------------------------------------------------------
\* SpecInstr: generate_instructions on paths of one to MaxPathLen points
\* ------------------------------------------------------------------------
\* path points <<x, y, level>> in quarters of a metre
InstrPoints ==
    { <<0, 0, 0>>, <<2, 0, 0>>, <<2, 2, 0>>, <<4, 2, 0>>, <<4, 2, 1>>, <<6, 2, 1>> }
InstrPaths == UNION { [1 .. k -> InstrPoints] : k \in 1 .. MaxPathLen }
JunctionChoices ==
    { <<>>,
      << [slam_x |-> 2, slam_y |-> 0, num_passages |-> 3, junction_type |-> "t_junction",
          level |-> 0],
         [slam_x |-> 2, slam_y |-> 2, num_passages |-> 2, junction_type |-> "bend",
          level |-> 0] >>,
      << [slam_x |-> 2, slam_y |-> 2, num_passages |-> 3, junction_type |-> "t_junction",
          level |-> 1] >> }
PoiChoices ==
    { <<>>,
      << [slam_x |-> 5, slam_y |-> 1, id |-> 7, poi_type |-> "hazard"] >>,
      << [slam_x |-> 4, slam_y |-> 2, id |-> 8, poi_type |-> "transition"] >> }

InitInstr ==
    /\ instr \in { [pc |-> "call", route_result |-> [path |-> p], junctions |-> js,
                    pois |-> ps, heading_offset_deg |-> o] :
                     p \in InstrPaths, js \in JunctionChoices, ps \in PoiChoices,
                     o \in {Float(0), Float(90000)} }
    /\ costmap = <<>> /\ transitions = <<>>
    /\ NoSearch /\ NoBuild /\ NoSmooth /\ NoRoute /\ NoEscalate
    /\ NoJunction /\ NoHeading

InstrFrame ==
    UNCHANGED <<searchVars, buildVars, smoothVars, routeVars, escalateVars, junction, heading>>

\* lines 97-145
InstrEnter ==
    /\ instr.pc = "call"
    /\ instr' = InstrBegin(instr.route_result, instr.junctions, instr.pois,
                           instr.heading_offset_deg)
    /\ InstrFrame

\* lines 148-281
InstrIterate ==
    /\ instr.pc = "walk"
    /\ instr' = InstrWalk(instr)
    /\ InstrFrame

\* lines 283-321
InstrReturn ==
    /\ instr.pc = "end"
    /\ instr' = InstrEnd(instr)
    /\ InstrFrame

NextInstr == InstrEnter \/ InstrIterate \/ InstrReturn
SpecInstr == InitInstr /\ [][NextInstr]_vars

\* ------------------------------------------------------------------------
\* SpecCore: the four entry points of the routing core, each on its inputs
\* ------------------------------------------------------------------------
InitCore == InitEscalate \/ InitRoute \/ InitJunction \/ InitInstr
\* a call runs on the inputs it was given: the other entry points stay idle
CoreBuild == map_data # <<>> /\ NextEscalate
CoreRoute == map_data = <<>> /\ NoJunction /\ NoInstr /\ NextRoute
NextCore == CoreBuild \/ CoreRoute \/ NextJunction \/ NextInstr
SpecCore == InitCore /\ [][NextCore]_vars

\* ------------------------------------------------------------------------
\* Reference definitions for the claims (independent of the search)
\* ------------------------------------------------------------------------
StepLen(a, b) == IF a[1] # b[1] /\ a[2] # b[2] THEN 1414 ELSE 1000
Adjacent(a, b) == a # b /\ RingRadius(a, b) = 1

RECURSIVE MoveLength(_)
MoveLength(p) ==
    IF Len(p) <= 1 THEN 0
    ELSE StepLen(p[1], p[2]) + MoveLength(Tail(p))

Traversable(cm) == { c \in CellsOf(cm) : is_traversable(cm, c[1], c[2]) }
Neighbours(cm, c) == { n \in Traversable(cm) : Adjacent(c, n) }

\* least accumulated cost from every cell to goal, a step costing
\* w[destination] * move length, by relaxation to the fixed point
RECURSIVE Relax(_, _, _)
Relax(cm, w, D) ==
    LET D2 == [c \in CellsOf(cm) |->
                 IF c \notin Traversable(cm) THEN Inf
                 ELSE MinOf({D[c]} \cup { D[n] + w[n] * StepLen(c, n) :
                                            n \in { m \in Neighbours(cm, c) : D[m] # Inf } })]
    IN IF D2 = D THEN D ELSE Relax(cm, w, D2)

MinCostTo(cm, w, goalCell) ==
    Relax(cm, w, [c \in CellsOf(cm) |-> IF c = goalCell /\ c \in Traversable(cm) THEN 0 ELSE Inf])

UnitWeight(cm) == [c \in CellsOf(cm) |-> 1]
Uniform(cm) == \E v \in CostChoices : \A c \in CellsOf(cm) : cm.cost[c] = v
InGrid(cell) == cell \in Cells

ValidPath(cm, p, from, to) ==
    /\ Len(p) >= 1
    /\ p[1] = from
    /\ p[Len(p)] = to
    /\ \A i \in 1 .. Len(p) : is_traversable(cm, p[i][1], p[i][2])
    /\ \A i \in 1 .. (Len(p) - 1) : Adjacent(p[i], p[i + 1])

\* ------------------------------------------------------------------------
\* C1: on a costmap whose cells all have one uniform finite cost, astar
\* with the default iteration bound returns, for every pair of in-grid
\* cells, a path from start to goal whose total move length equals the
\* length of the shortest 8-connected path between them.
\* ------------------------------------------------------------------------
C1_UniformOptimal ==
    (search.pc = "done" /\ Uniform(costmap) /\ InGrid(start) /\ InGrid(goal)
       /\ max_iterations = DefaultMaxIterations)
    => /\ search.result.ok
       /\ ValidPath(costmap, search.result.path, start, goal)
       /\ MoveLength(search.result.path) = MinCostTo(costmap, UnitWeight(costmap), goal)[start]

C1_Witness ==
    /\ search.pc = "done" /\ Uniform(costmap) /\ InGrid(start) /\ InGrid(goal)
    /\ max_iterations = DefaultMaxIterations
    /\ search.result.ok
    /\ MoveLength(search.result.path) = 1414 + 1000

\* ------------------------------------------------------------------------
\* C2: the heuristic is admissible: for every traversable cell the
\* Euclidean cell distance to the goal is at most the least accumulated
\* step cost from the cell to the goal (step = destination cost * move
\* length).  sqrt(d2) <= D for an integer D (in 1/100000) iff
\* ceil(sqrt(d2) * 10^5) <= D.
\* ------------------------------------------------------------------------
SqrtCeil5(n) == IF IntSqrt(n) * IntSqrt(n) = n THEN SqrtTable[n] ELSE SqrtTable[n] + 1

C2_Admissible ==
    (search.pc = "loop" /\ search.iterations = 0)
    => LET D == MinCostTo(costmap, costmap.cost, search.g)
       IN \A c \in Traversable(costmap) :
             D[c] # Inf => SqrtCeil5(DistSq(c, search.g)) <= D[c]

\* ------------------------------------------------------------------------
\* C3: astar pops at most max_iterations entries, every step of the loop
\* pops one entry or ends the search, and the search ends with None exactly
\* when an endpoint cannot be replaced by a traversable cell, or the goal
\* cannot be reached from the start (the open set empties), or the
\* iteration bound is exhausted before the goal is popped; otherwise it
\* ends with a path from the start to the goal.
\* ------------------------------------------------------------------------
Reachable(cm, from, to) == MinCostTo(cm, UnitWeight(cm), to)[from] # Inf

C3_ResultInv ==
    /\ search.iterations <= max_iterations
    /\ search.pc = "done" =>
         IF search.s = <<>> \/ search.g = <<>> THEN search.result = None
         ELSE IF ~ Reachable(costmap, search.s, search.g)
              THEN search.result = None /\ (search.open = {} \/ search.iterations = max_iterations)
         ELSE IF search.result.ok
              THEN ValidPath(costmap, search.result.path, search.s, search.g)
              ELSE search.iterations = max_iterations /\ search.popped.cell # search.g

C3_Progress ==
    search.pc = "loop" =>
       \/ search'.pc = "done" /\ search'.iterations = search.iterations
       \/ search'.iterations = search.iterations + 1

C3_Terminates == [] C3_ResultInv /\ [][C3_Progress]_vars

\* start and goal traversable, separated by a wall: the open set empties
C3_Witness ==
    /\ search.pc = "done"
    /\ InGrid(start) /\ search.s = start
    /\ InGrid(goal) /\ search.g = goal
    /\ ~ Reachable(costmap, start, goal)
    /\ search.open = {} /\ search.iterations > 1 /\ search.iterations < max_iterations
    /\ search.result = None

\* ------------------------------------------------------------------------
\* C4: every pop takes an entry of least f-score and, among the entries of
\* that f-score, the one inserted earliest (smallest counter).
\* ------------------------------------------------------------------------
C4_PopOrder ==
    (search.pc = "loop" /\ search'.popped # search.popped)
    => /\ search'.popped \in search.open
       /\ \A o \in search.open :
             /\ search'.popped.f <= o.f
             /\ (o.f = search'.popped.f => search'.popped.n <= o.n)

C4_TieBreak == [][C4_PopOrder]_vars

\* an entry was popped while a later-inserted entry of equal f-score waited
\* (one not pushed by this very iteration: its parent is another cell)
C4_Witness ==
    /\ search.popped # <<>>
    /\ \E o \in search.open :
          /\ o.f = search.popped.f /\ o.n > search.popped.n
          /\ search.came_from[o.cell] # search.popped.cell

\* ------------------------------------------------------------------------
\* C5 (as amended): a non-traversable endpoint is replaced by a traversable
\* cell of the smallest square ring (radius 1..20) that holds one, so no
\* traversable cell lies in a smaller ring; if no ring of radius <= 20
\* holds a traversable cell, astar returns None.
\* ------------------------------------------------------------------------
Rescuable(cm, cell) ==
    \E c \in Traversable(cm) : RingRadius(cell, c) >= 1 /\ RingRadius(cell, c) <= MaxRadius

RingNearest(cm, cell, sub) ==
    IF ~ Rescuable(cm, cell) THEN sub = <<>>
    ELSE /\ sub \in Traversable(cm)
         /\ \A c \in Traversable(cm) : RingRadius(cell, sub) <= RingRadius(cell, c)

EuclidNearest(cm, cell, sub) ==
    IF ~ Rescuable(cm, cell) THEN sub = <<>>
    ELSE /\ sub \in Traversable(cm)
         /\ \A c \in Traversable(cm) : DistSq(cell, sub) <= DistSq(cell, c)

PointCell(g, point) == world_to_cell(point[1], point[2], g.origin)
TrajectoryMarked == build_pc \in {"transitions", "costmap", "built"}

C8_InGridTrajectoryFree ==
    TrajectoryMarked =>
       \A k \in 1 .. Len(level.trajectory) :
          LET rc == PointCell(occ, level.trajectory[k])
          IN in_bounds(occ, rc[1], rc[2]) => is_free(occ, rc[1], rc[2])

\* a trajectory point on a cell whose density is above the threshold
C8_Witness ==
    /\ TrajectoryMarked
    /\ \E k \in 1 .. Len(level.trajectory) :
          LET rc == PointCell(occ, level.trajectory[k])
          IN /\ in_bounds(occ, rc[1], rc[2])
             /\ level.heatmap.data[rc] > occupancy_threshold
             /\ is_free(occ, rc[1], rc[2])

\* C8 as stated: is_free holds at the cell of every trajectory point.
C8_Original ==
    TrajectoryMarked =>
       \A k \in 1 .. Len(level.trajectory) :
          LET rc == PointCell(occ, level.trajectory[k])
          IN is_free(occ, rc[1], rc[2])

\* ------------------------------------------------------------------------
\* C9: in a Costmap built with protected points, every cell of the grid
\* within 2 rows and 2 columns of the cell of a protected point has a
\* finite cost and is traversable.
\* ------------------------------------------------------------------------
ProtectedCells(cm, points) ==
    { c \in CellsOf(cm) : \E k \in 1 .. Len(points) : RingRadius(c, PointCell(cm, points[k])) <= 2 }

C9_ProtectedTraversable ==
    build_pc = "built" =>
       \A c \in ProtectedCells(costmap, protected_points(level, transitions)) :
          costmap.cost[c] # Inf /\ is_traversable(costmap, c[1], c[2])

\* a cell in the +-2 block of a protected point that lies next to an occupied
\* cell, i.e. inside the inflation band that protection re-clears
C9_Witness ==
    /\ build_pc = "built"
    /\ \E c \in ProtectedCells(costmap, protected_points(level, transitions)) :
          /\ \E d \in CellsOf(costmap) : costmap.grid[d] /\ RingRadius(c, d) = 1
          /\ is_traversable(costmap, c[1], c[2])

\* ------------------------------------------------------------------------
\* C6: smooth_path terminates and returns a path that is no longer than
\* its argument and has the same first and the same last cell.
\* ------------------------------------------------------------------------
C6_ResultInv ==
    /\ smooth.pc = "loop" =>
          /\ smooth.i <= Len(path)
          /\ Len(smooth.smoothed) <= smooth.i
          /\ smooth.smoothed # <<>>
          /\ smooth.smoothed[1] = path[1]
          /\ smooth.smoothed[Len(smooth.smoothed)] = path[smooth.i]
    /\ smooth.pc = "done" =>
          /\ Len(smooth.result) <= Len(path)
          /\ (path = <<>>) = (smooth.result = <<>>)
          /\ path # <<>> =>
                /\ smooth.result[1] = path[1]
                /\ smooth.result[Len(smooth.result)] = path[Len(path)]

\* every iteration of the loop ends the loop or moves i forward
C6_Progress ==
    smooth.pc = "loop" => (smooth'.pc = "done" \/ smooth'.i > smooth.i)

C6_SmoothContract == [] C6_ResultInv /\ [][C6_Progress]_vars

\* a path that smoothing shortens
C6_Witness ==
    /\ smooth.pc = "done"
    /\ Len(path) >= 3
    /\ Len(smooth.result) < Len(path)
    /\ smooth.result[1] = path[1]
    /\ smooth.result[Len(smooth.result)] = path[Len(path)]

\* ------------------------------------------------------------------------
\* C7: for a path returned by astar, every pair of consecutive cells of
\* smooth_path's output passes _line_of_sight with the smoother's clearance.
\* ------------------------------------------------------------------------
C7_LineOfSight ==
    (smooth.pc = "done" /\ start # <<>>) =>
       \A k \in 1 .. (Len(smooth.result) - 1) :
          _line_of_sight(costmap, smooth.result[k], smooth.result[k + 1], 1)

\* ------------------------------------------------------------------------
\* C10: for two waypoints on different levels a and b joined by a
\* transition, route_through_waypoints returns a route exactly when both
\* sub-routes exist, and then the levels of its path are a run of a followed
\* by a run of b, its segments contain a transition segment of distance 0,
\* and total_distance_m is the sum of the distances of the two sub-routes.
\* ------------------------------------------------------------------------
CrossPair ==
    /\ Len(waypoints) = 2
    /\ waypoints[1].level # waypoints[2].level
    /\ transitions # <<>>
    /\ _find_transition(transitions, waypoints[1].level, waypoints[2].level) # <<>>

RunThenRun(p, a, b) ==
    \E n \in 1 .. (Len(p) - 1) :
       \A k \in 1 .. Len(p) : p[k][3] = (IF k <= n THEN a ELSE b)

SubRouteA ==
    LET a == waypoints[1].level
        t == _find_transition(transitions, a, waypoints[2].level)
    IN _route_same_level(level_costmaps[a], waypoints[1],
                         [slam_x |-> t.x, slam_y |-> t.y, level |-> a], a)

SubRouteB ==
    LET b == waypoints[2].level
        t == _find_transition(transitions, waypoints[1].level, b)
    IN _route_same_level(level_costmaps[b], [slam_x |-> t.x, slam_y |-> t.y, level |-> b],
                         waypoints[2], b)

C10_CrossLevelRoute ==
    (route.pc = "done" /\ CrossPair) =>
       /\ route.result.ok = (SubRouteA.ok /\ SubRouteB.ok)
       /\ route.result.ok =>
             /\ RunThenRun(route.result.path, waypoints[1].level, waypoints[2].level)
             /\ \E k \in 1 .. Len(route.result.segments) :
                   LET seg == route.result.segments[k]
                   IN /\ "is_transition" \in DOMAIN seg
                      /\ seg.is_transition
                      /\ seg.distance_m = 0
             /\ route.result.total_distance_m = SubRouteA.distance_m + SubRouteB.distance_m

\* a cross-level route whose two sub-routes both have a positive length
C10_Witness ==
    /\ route.pc = "done"
    /\ CrossPair
    /\ route.result.ok
    /\ SubRouteA.distance_m > 0
    /\ SubRouteB.distance_m > 0
    /\ route.result.total_distance_m = SubRouteA.distance_m + SubRouteB.distance_m
\* ------------------------------------------------------------------------
\* C11: route_through_waypoints returns None, and raises no exception,
\* whenever fewer than 2 waypoints are given, a sub-route's astar fails, or
\* two consecutive waypoints lie on different levels that no transition
\* record connects; a returned result has the segments of every consecutive
\* waypoint pair.
\* ------------------------------------------------------------------------
Pairs == 1 .. (Len(waypoints) - 1)

MissingTransition(i) ==
    /\ waypoints[i].level # waypoints[i + 1].level
    /\ \/ transitions = <<>>
       \/ _find_transition(transitions, waypoints[i].level, waypoints[i + 1].level) = <<>>

\* a sub-route of the pair i whose astar returns None
SubRouteFails(i) ==
    LET a == waypoints[i].level
        b == waypoints[i + 1].level
    IN IF a = b
       THEN /\ a \in DOMAIN level_costmaps
            /\ ~ _route_same_level(level_costmaps[a], waypoints[i], waypoints[i + 1], a).ok
       ELSE /\ ~ MissingTransition(i)
            /\ LET t == _find_transition(transitions, a, b)
               IN \/ /\ a \in DOMAIN level_costmaps
                     /\ ~ _route_same_level(level_costmaps[a], waypoints[i],
                                            [slam_x |-> t.x, slam_y |-> t.y, level |-> a], a).ok
                  \/ /\ b \in DOMAIN level_costmaps
                     /\ ~ _route_same_level(level_costmaps[b],
                                            [slam_x |-> t.x, slam_y |-> t.y, level |-> b],
                                            waypoints[i + 1], b).ok

RouteEnded == route.pc \in {"done", "raised"}

RECURSIVE SegmentCount(_)
SegmentCount(i) ==
    IF i = 0 THEN 0
    ELSE SegmentCount(i - 1) + (IF waypoints[i].level = waypoints[i + 1].level THEN 1 ELSE 3)

C11_FailureIsNone ==
    RouteEnded =>
       /\ (\/ Len(waypoints) < 2
           \/ \E i \in Pairs : MissingTransition(i) \/ SubRouteFails(i))
          => (route.pc = "done" /\ route.result = [ok |-> FALSE])
       /\ (route.pc = "done" /\ route.result.ok)
          => Len(route.result.segments) = SegmentCount(Len(waypoints) - 1)
\* ------------------------------------------------------------------------
\* C12: with no fixed threshold, build_costmaps_from_map_data builds at
\* 0.15, 0.25, 0.35, 0.5 in that order and returns the costmaps of the first
\* threshold whose connectivity verification passes, or those built at 0.5
\* if none passes; it makes at most five builds.
\* ------------------------------------------------------------------------
ClaimedOrder == <<15, 25, 35, 50>>

BuiltAt(t) ==
    _build_costmaps_at_threshold(map_data, map_data.transitions, inflation_radius, t)

Passing ==
    { k \in 1 .. Len(ClaimedOrder) :
        _verify_connectivity(BuiltAt(ClaimedOrder[k]), map_data, map_data.transitions) }

IsPrefix(p, q) == Len(p) <= Len(q) /\ \A k \in 1 .. Len(p) : p[k] = q[k]

C12_Escalation ==
    (escalate.pc # "init" /\ occupancy_threshold = NoThreshold) =>
       /\ IsPrefix(escalate.tried, ClaimedOrder \o <<50>>)
       /\ escalate.pc = "done" =>
             escalate.result = (IF Passing = {} THEN BuiltAt(50)
                                ELSE BuiltAt(ClaimedOrder[MinOf(Passing)]))

\* the first two thresholds cut the trajectory in two, the third passes
C12_Witness ==
    /\ escalate.pc = "done"
    /\ occupancy_threshold = NoThreshold
    /\ escalate.tried = <<15, 25, 35>>
    /\ escalate.result = BuiltAt(35)
    /\ escalate.result # BuiltAt(25)

\* ------------------------------------------------------------------------
\* C13: when connectivity verification accepts a threshold, on every level
\* with a trajectory the cells of all trajectory points and of every
\* transition touching the level lie in one connected region of finite-cost
\* cells.
\* ------------------------------------------------------------------------
Accepted == escalate.pc = "done" /\ Len(escalate.tried) <= Len(escalate.thresholds)

\* the in-grid cells of the trajectory points and touching transitions
KeyCells(cm, lvl) ==
    { c \in { world_to_cell(lvl.trajectory[k][1], lvl.trajectory[k][2], cm.origin) :
                k \in 1 .. Len(lvl.trajectory) }
            \cup { world_to_cell(map_data.transitions[k].x, map_data.transitions[k].y, cm.origin) :
                     k \in { j \in 1 .. Len(map_data.transitions) :
                               Touches(map_data.transitions[j], lvl.index) } } :
        in_bounds(cm, c[1], c[2]) }

C13_OneRegion ==
    Accepted =>
       \A k \in 1 .. Len(map_data.levels) :
          LET lvl == map_data.levels[k]
          IN (lvl.trajectory # <<>> /\ lvl.index \in DOMAIN escalate.result) =>
                \A c, d \in KeyCells(escalate.result[lvl.index], lvl) :
                   /\ labeled(escalate.result[lvl.index], c) # {}
                   /\ labeled(escalate.result[lvl.index], c) = labeled(escalate.result[lvl.index], d)

\* C14: a junction with n passages is a fork when n = 2 and the angular
\* difference of the two directions is under 60 degrees, a bend when n = 2
\* otherwise, a t_junction for n = 3, a crossroads for n = 4 and junction_n
\* for any other n, for every pair of angles in (-pi, pi], the pairs on either
\* side of the +/-pi seam included.
AngularDifference(a, b) == Min2(Abs(a - b), 2 * Pi - Abs(a - b))
ClaimedType(angles) ==
    IF Len(angles) = 2
    THEN IF AngularDifference(angles[1], angles[2]) < 60000 THEN "fork" ELSE "bend"
    ELSE IF Len(angles) = 3 THEN "t_junction"
    ELSE IF Len(angles) = 4 THEN "crossroads"
    ELSE <<"junction", Len(angles)>>
C14_Classification ==
    junction.pc = "classified" => junction.jtype = ClaimedType(junction.angles)

\* C15: on a '+'-shaped corridor whose arms are at least twice the minimum
\* passage width, detect_junctions returns exactly one junction, a crossroads
\* with 4 passage angles about 90 degrees apart; on a 'T'-shaped corridor it
\* returns exactly one junction, a t_junction with 3 passage angles.
IsCorridor(st, shape) ==
    \E aw \in CorridorChoices :
        /\ aw[1] >= 2 * st.min_width_cells
        /\ aw[2] >= 2 * st.min_width_cells
        /\ st.occ = Corridor(shape, aw[1], aw[2])
RightAngles(angles) ==
    \A i \in 1 .. 4 : \E j \in 1 .. 4 :
        Abs(AngularDifference(angles[i], angles[j]) - 90000) <= 15000
C15_Corridors ==
    junction.pc = "done" =>
        /\ IsCorridor(junction, "plus") =>
             /\ Len(junction.junctions) = 1
             /\ junction.junctions[1].junction_type = "crossroads"
             /\ junction.junctions[1].num_passages = 4
             /\ RightAngles(junction.junctions[1].passage_angles)
        /\ IsCorridor(junction, "tee") =>
             /\ Len(junction.junctions) = 1
             /\ junction.junctions[1].junction_type = "t_junction"
             /\ junction.junctions[1].num_passages = 3

\* C16: for every route result, the instruction list generate_instructions
\* returns starts with a 'start' instruction at the first path point, ends
\* with an 'end' instruction at the last path point, and holds exactly one
\* 'start' and exactly one 'end'.
OfType(instructions, type) == { k \in DOMAIN instructions : instructions[k].type = type }
AtPoint(ins, p) == ins.slam_x = p[1] /\ ins.slam_y = p[2] /\ ins.level = p[3]
C16_StartAndEnd ==
    instr.pc = "done" =>
        LET p == instr.route_result.path
            ins == instr.instructions
        IN /\ ins # <<>>
           /\ OfType(ins, "start") = {1}
           /\ OfType(ins, "end") = {Len(ins)}
           /\ AtPoint(ins[1], p[1])
           /\ AtPoint(ins[Len(ins)], p[Len(p)])

\* C17: _relative_direction maps a heading change d in [-180, 180] degrees to
\* continue straight for |d| < 20, bear for 20 <= |d| < 45, turn for
\* 45 <= |d| < 135 and turn around for |d| >= 135; left or right depends only
\* on the sign of d, so d and -d yield mirrored labels, boundaries included.
ClaimedDirection(d) ==
    LET side == IF d > 0 THEN "right" ELSE "left"
    IN IF Abs(d) < 20000 THEN "continue_straight"
       ELSE IF Abs(d) < 45000 THEN IF side = "right" THEN "bear_right" ELSE "bear_left"
       ELSE IF Abs(d) < 135000 THEN IF side = "right" THEN "turn_right" ELSE "turn_left"
       ELSE IF side = "right" THEN "turn_around_right" ELSE "turn_around_left"
Mirrored(label) ==
    CASE label = "continue_straight" -> "continue_straight"
      [] label = "bear_right" -> "bear_left"
      [] label = "bear_left" -> "bear_right"
      [] label = "turn_right" -> "turn_left"
      [] label = "turn_left" -> "turn_right"
      [] label = "turn_around_right" -> "turn_around_left"
      [] label = "turn_around_left" -> "turn_around_right"
C17_RelativeDirection ==
    (heading.pc = "done" /\ heading.fn = "_relative_direction") =>
        /\ heading.result = ClaimedDirection(heading.deg)
        /\ _relative_direction(0 - heading.deg) = Mirrored(heading.result)
C17_Witness ==
    /\ heading.pc = "done" /\ heading.fn = "_relative_direction"
    /\ heading.deg = 0 - 45000
    /\ heading.result = "turn_left"

\* C18: the compass heading is (offset - in-cave heading) mod 360 and lies in
\* [0, 360); with offset 0, heading 0 gives 0 named N and heading 90 gives 270
\* named W; the 16-point name of d equals the name of d + 360 k for every
\* integer k.
InRange(x) == (x[1] > 0 \/ (x[1] = 0 /\ x[2] >= 0)) /\ x[1] < 2 * Pi
C18_Compass ==
    /\ (heading.pc = "done" /\ heading.fn = "_slam_heading_to_compass") =>
         /\ InRange(heading.result)
         /\ (heading.slam_deg[2] = 0 /\ heading.heading_offset_deg[2] = 0) =>
              heading.result = Float((heading.heading_offset_deg[1] - heading.slam_deg[1]) % (2 * Pi))
         /\ (heading.heading_offset_deg = Float(0) /\ heading.slam_deg = Float(0)) =>
              heading.result = Float(0) /\ _compass_name(heading.result) = "N"
         /\ (heading.heading_offset_deg = Float(0) /\ heading.slam_deg = Float(90000)) =>
              heading.result = Float(270000) /\ _compass_name(heading.result) = "W"
    /\ (heading.pc = "done" /\ heading.fn = "_compass_name" /\ heading.degrees[2] = 0) =>
         \A k \in (0 - 2) .. 2 :
             heading.result = _compass_name(Float(heading.degrees[1] + 2 * Pi * k))

\* C19: build_costmaps_from_map_data, route_through_waypoints,
\* detect_junctions and generate_instructions leave their inputs as they were:
\* map_data (densities, trajectories, transition list), the costmaps, the
\* waypoint list, the occupancy grid and the route result, junctions and POIs
\* handed to generate_instructions never change during a call.
C19_InputsUnchanged ==
    [][ /\ map_data' = map_data
        /\ waypoints' = waypoints
        /\ level_costmaps' = level_costmaps
        /\ level_costmaps # <<>> => transitions' = transitions
        /\ junction.pc \in {"detect", "thin", "branch"} => junction'.occ = junction.occ
        /\ instr.pc \in {"call", "walk", "end"} =>
             /\ instr'.route_result = instr.route_result
             /\ instr'.junctions = instr.junctions
             /\ instr'.pois = instr.pois ]_vars
C19_Witness ==
    /\ escalate.pc = "done"
    /\ Len(escalate.tried) >= 2
    /\ \E k \in DOMAIN map_data.levels : \E t \in DOMAIN map_data.transitions :
         /\ map_data.levels[k].heatmap # <<>>
         /\ Touches(map_data.transitions[t], map_data.levels[k].index)
         /\ map_data.levels[k].trajectory \in EscTrajectories

\* C20: mark_trajectory_free(points, radius_cells) changes only cells whose
\* row and column are both within radius_cells of the cell of one of the
\* points; every other cell keeps its occupancy, also when the cell of a point
\* lies outside the grid (negative or too-large row or column).
NearPoint(c, points, radius_cells) ==
    \E k \in 1 .. Len(points) :
        LET rc == PointCell(occ, points[k])
        IN Abs(c[1] - rc[1]) <= radius_cells /\ Abs(c[2] - rc[2]) <= radius_cells
C20_OnlyNeighbourhood ==
    build_pc = "transitions" =>
        \A c \in DOMAIN occ.grid :
            ~ NearPoint(c, level.trajectory, 2) =>
                occ.grid[c] = LevelOccupancy(level, occupancy_threshold).grid[c]

\* C21: when a fixed occupancy threshold is supplied, the costmaps returned by
\* build_costmaps_from_map_data are those built at exactly that threshold,
\* whether or not connectivity verification passes at it.
C21_FixedThreshold ==
    (escalate.pc = "done" /\ occupancy_threshold # NoThreshold) =>
        escalate.result = _build_costmaps_at_threshold(map_data, map_data.transitions,
                                                       inflation_radius, occupancy_threshold)

\* ------------------------------------------------------------------------
\* C22: for every result of route_through_waypoints, total_distance_m is the
\* sum of the Euclidean (x, y) distances between consecutive points of the
\* returned path; the step that changes level has zero (x, y) displacement,
\* and every segment starts at the point the previous segment ends at, so
\* that no point is skipped or duplicated where segments are joined.
\* ------------------------------------------------------------------------
LastOf(p) == p[Len(p)]

C22_TotalDistance ==
    (route.pc = "done" /\ route.result.ok) =>
       LET res == route.result
       IN /\ res.total_distance_m = PathDistance(res.path)
          /\ \A k \in 1 .. (Len(res.path) - 1) :
                res.path[k][3] # res.path[k + 1][3]
                   => DistSq(res.path[k], res.path[k + 1]) = 0
          /\ \A k \in 2 .. Len(res.segments) :
                res.segments[k].path[1][1] = LastOf(res.segments[k - 1].path)[1]
                /\ res.segments[k].path[1][2] = LastOf(res.segments[k - 1].path)[2]

\* ------------------------------------------------------------------------
\* C23: skeleton thinning removes, in each pass, only cells that have exactly
\* two skeleton neighbours that are not opposite each other; every cell that
\* has <= 1 or >= 3 neighbours in the raw ridge mask is still present after
\* all passes; thinning only removes cells and makes at most max_iterations
\* (5) passes.
\* ------------------------------------------------------------------------
Thinning == junction.pc \in {"thin", "branch", "done"}

RawRidges ==
    LET o == junction.occ
        free_mask == [c \in CellsOf(o) |-> ~ o.grid[c]]
    IN Ridges(free_mask, distance_transform_edt(free_mask), junction.min_width_cells,
              o.height, o.width)

Collinear(nb) == \E a \in nb, b \in nb : a # b /\ a[1] + b[1] = 0 /\ a[2] + b[2] = 0

Removable(S, c) ==
    Cardinality(SkeletonNeighbours(S, c)) = 2 /\ ~ Collinear(SkeletonNeighbours(S, c))

C23_PassRemoves ==
    (junction.pc = "thin" /\ junction'.pc \in {"thin", "branch"}) =>
        /\ junction'.skeleton \subseteq junction.skeleton
        /\ \A c \in junction.skeleton \ junction'.skeleton : Removable(junction.skeleton, c)

C23_RawKept ==
    Thinning =>
        /\ junction.skeleton \subseteq RawRidges
        /\ junction.iterations <= 5
        /\ junction.pc # "thin" =>
              \A c \in RawRidges :
                  Cardinality(SkeletonNeighbours(RawRidges, c)) # 2 => c \in junction.skeleton

C23_Thinning == [] C23_RawKept /\ [][C23_PassRemoves]_vars

\* ------------------------------------------------------------------------
\* C24: a Costmap built without any protected point has no trajectory
\* penalty: the cost of every non-lethal cell is its wall-proximity penalty
\* alone (trajectory multiplier exactly 1).
\* ------------------------------------------------------------------------
\* the wall penalty (1/1000) times the multiplier 1, as a cost in 1/100
WallCostAlone(cm, c) == (wall_penalty(cm.distance_field[c]) * 1000 + 5000) \div 10000

C24_NoTrajectoryPenalty ==
    (build_pc = "built" /\ protected_points(level, transitions) = <<>>) =>
        \A c \in CellsOf(costmap) :
            costmap.cost[c] # Inf => costmap.cost[c] = WallCostAlone(costmap, c)

\* ------------------------------------------------------------------------
\* C25: for a level whose first and last trajectory cells are in the grid,
\* _verify_connectivity accepts the level's costmap exactly when astar,
\* without hitting its iteration bound, reaches from the first trajectory
\* cell the last trajectory cell and every in-grid transition cell of the
\* level.
\* ------------------------------------------------------------------------
FirstCell(lvl, cm) == world_to_cell(lvl.trajectory[1][1], lvl.trajectory[1][2], cm.origin)
LastCell(lvl, cm) ==
    world_to_cell(lvl.trajectory[Len(lvl.trajectory)][1], lvl.trajectory[Len(lvl.trajectory)][2],
                  cm.origin)

Verified(costmaps, lvl) ==
    /\ lvl.index \in DOMAIN costmaps
    /\ lvl.trajectory # <<>>
    /\ in_bounds(costmaps[lvl.index], FirstCell(lvl, costmaps[lvl.index])[1],
                 FirstCell(lvl, costmaps[lvl.index])[2])
    /\ in_bounds(costmaps[lvl.index], LastCell(lvl, costmaps[lvl.index])[1],
                 LastCell(lvl, costmaps[lvl.index])[2])

PlannerReaches(cm, lvl, trans) ==
    /\ astar(cm, FirstCell(lvl, cm), LastCell(lvl, cm), DefaultMaxIterations).ok
    /\ \A k \in 1 .. Len(trans) :
          LET tc == world_to_cell(trans[k].x, trans[k].y, cm.origin)
          IN (Touches(trans[k], lvl.index) /\ in_bounds(cm, tc[1], tc[2]))
             => astar(cm, FirstCell(lvl, cm), tc, DefaultMaxIterations).ok

C25_AgreesWithPlanner ==
    escalate.pc = "verify" =>
        \A k \in 1 .. Len(map_data.levels) :
            Verified(escalate.costmaps, map_data.levels[k]) =>
                (LevelConnected(escalate.costmaps, map_data.levels[k], map_data.transitions)
                 <=> PlannerReaches(escalate.costmaps[map_data.levels[k].index],
                                    map_data.levels[k], map_data.transitions))

\* ------------------------------------------------------------------------
\* C26: every cell that is occupied in the OccupancyGrid when the Costmap is
\* constructed has cost +infinity and is not traversable.
\* ------------------------------------------------------------------------
C26_OccupiedLethal ==
    build_pc = "built" =>
        \A c \in CellsOf(costmap) :
            costmap.grid[c] => (costmap.cost[c] = Inf /\ ~ is_traversable(costmap, c[1], c[2]))

\* ------------------------------------------------------------------------
\* C27: every non-None result of astar is a list of cells that starts at the
\* (possibly substituted) start, ends at the (possibly substituted) goal,
\* contains only traversable cells, has every consecutive pair distinct and
\* 8-adjacent, and visits no cell twice.
\* ------------------------------------------------------------------------
Substituted(cm, cell) ==
    IF is_traversable(cm, cell[1], cell[2]) THEN cell
    ELSE _find_nearest_free(cm, cell[1], cell[2])

C27_ResultIsPath ==
    (search.pc = "done" /\ search.result.ok) =>
        LET p == search.result.path
        IN /\ Len(p) >= 1
           /\ p[1] = Substituted(costmap, start)
           /\ p[Len(p)] = Substituted(costmap, goal)
           /\ \A i \in 1 .. Len(p) : is_traversable(costmap, p[i][1], p[i][2])
           /\ \A i \in 1 .. (Len(p) - 1) :
                 p[i] # p[i + 1] /\ RingRadius(p[i], p[i + 1]) = 1
           /\ \A i \in 1 .. Len(p), j \in 1 .. Len(p) : p[i] = p[j] => i = j

\* a path of three or more cells between two substituted endpoints
C27_Witness ==
    /\ search.pc = "done" /\ search.result.ok
    /\ ~ is_traversable(costmap, start[1], start[2])
    /\ ~ is_traversable(costmap, goal[1], goal[2])
    /\ Len(search.result.path) >= 3

\* ------------------------------------------------------------------------
\* C28: turn labels and POI side labels use one left/right convention: for
\* consecutive path points p0 -> p1 -> p2 of one level that turn by between
\* 20 and 160 degrees at p1, the relative direction of the heading change
\* at p1 is a 'left' label exactly when _point_side(p0, p1, q) is 'left' for
\* a point q located at p2.
\* ------------------------------------------------------------------------
LeftLabels == {"bear_left", "turn_left", "turn_around_left"}

TurnAt(p, k) ==
    _normalize_angle(_heading_between(p[k], p[k + 1]) - _heading_between(p[k - 1], p[k]))

IsTurn(p, k) ==
    /\ p[k - 1][3] = p[k][3] /\ p[k][3] = p[k + 1][3]
    /\ p[k - 1] # p[k] /\ p[k] # p[k + 1]
    /\ 20000 <= Abs(TurnAt(p, k)) /\ Abs(TurnAt(p, k)) <= 160000

C28_OneConvention ==
    instr.pc = "done" =>
        LET p == instr.route_result.path
        IN \A k \in 2 .. (Len(p) - 1) :
              IsTurn(p, k) =>
                 (_relative_direction(TurnAt(p, k)) \in LeftLabels
                  <=> _point_side(p[k - 1], p[k],
                                  [slam_x |-> p[k + 1][1], slam_y |-> p[k + 1][2]]) = "left")

\* ------------------------------------------------------------------------
\* C29: the flat time penalty of a POI is added at most once per route: a
\* 'transition' POI adds 300 s and a 'hazard' POI 120 s to total_time_s in
\* total, however many path points fall inside the POI's lookup cell, and
\* each POI produces at most one 'poi' instruction.
\* ------------------------------------------------------------------------
PoiAt(pois, point) ==
    IndexGet(_build_spatial_index(pois, OneMetre), _grid_key(point[1], point[2], OneMetre))

\* the walking time of the steps up to point k, in milliseconds, without
\* any flat penalty
RECURSIVE WalkingTime(_, _, _)
WalkingTime(p, pois, k) ==
    IF k <= 1 THEN 0
    ELSE LET hit == PoiAt(pois, p[k])
             tenths == IF hit = <<>> THEN 10 ELSE _POI_SPEED_MULTIPLIERS(hit.poi_type)
         IN WalkingTime(p, pois, k - 1)
            + (Sqrt5(DistSq(p[k], p[k - 1])) * 90) \div (1000 * DefaultSpeedKmh * tenths)

FlatPenalty(poi_type) ==
    IF poi_type = "transition" THEN 300000 ELSE IF poi_type = "hazard" THEN 120000 ELSE 0

\* the POIs (by position in the list) that some walked path point looks up
PoisPassed(p, pois) ==
    { q \in 1 .. Len(pois) : \E k \in 2 .. Len(p) : PoiAt(pois, p[k]) = pois[q] }

RECURSIVE PenaltyOnce(_, _)
PenaltyOnce(pois, Q) ==
    IF Q = {} THEN 0
    ELSE LET q == CHOOSE x \in Q : TRUE
         IN FlatPenalty(pois[q].poi_type) + PenaltyOnce(pois, Q \ {q})

\* a route path as route_through_waypoints joins it: no point twice in a row
Joined(p) == \A k \in 1 .. (Len(p) - 1) : p[k] # p[k + 1]

C29_PenaltyOnce ==
    (instr.pc = "done" /\ Len(instr.route_result.path) >= 2 /\ Joined(instr.route_result.path)) =>
        LET p == instr.route_result.path
        IN /\ instr.total_time_s =
                RoundHalfEven(WalkingTime(p, instr.pois, Len(p))
                              + PenaltyOnce(instr.pois, PoisPassed(p, instr.pois)), 100)
           /\ \A q \in 1 .. Len(instr.pois) :
                 Cardinality({ k \in 1 .. Len(instr.instructions) :
                                 /\ instr.instructions[k].type = "poi"
                                 /\ PoiAt(instr.pois, << instr.instructions[k].slam_x,
                                                         instr.instructions[k].slam_y >>)
                                    = instr.pois[q] }) <= 1

\* ------------------------------------------------------------------------
\* C30: a 'junction' instruction at a path point is emitted only for a
\* junction detected on the level of that path point: every junction
\* instruction has a junction of its own level in its lookup cell.
\* ------------------------------------------------------------------------
C30_SameLevelJunction ==
    instr.pc = "done" =>
        \A k \in 1 .. Len(instr.instructions) :
            instr.instructions[k].type = "junction" =>
                \E j \in 1 .. Len(instr.junctions) :
                    /\ instr.junctions[j].level = instr.instructions[k].level
                    /\ _grid_key(instr.junctions[j].slam_x, instr.junctions[j].slam_y, HalfMetre)
                       = _grid_key(instr.instructions[k].slam_x, instr.instructions[k].slam_y,
                                   HalfMetre)

====
